---- MODULE Spec2Model ----
(***************************************************************************)
(* A model of core/video_processor.py: the VideoProcessor supervisor, its  *)
(* monitoring thread, the progress-line parser and the external process.   *)
(*                                                                         *)
(* One VideoProcessor instance is modelled.  Its methods are called from   *)
(* one caller thread (the GUI main thread); every start_process that       *)
(* spawns a process also starts one monitoring thread.  The threads        *)
(* interleave at statement granularity: every action below is one          *)
(* statement of the source, or a group of adjacent statements of which at  *)
(* most one reads or writes a field that another thread's step between     *)
(* them could write or read.                                               *)
(***************************************************************************)
EXTENDS Integers, Sequences, FiniteSets, TLC

(***************************************************************************)
(* Bounds of the model.                                                    *)
(***************************************************************************)
\* The number of external processes (subprocess.Popen calls that succeed).
MaxRuns == 2

Runs == 1..MaxRuns

(***************************************************************************)
(* ProcessStatus (video_processor.py:14-20).                               *)
(***************************************************************************)
IDLE == "idle"
RUNNING == "running"
COMPLETED == "completed"
ERROR == "error"
CANCELLED == "cancelled"

(***************************************************************************)
(* Time strings.  "HH:MM:SS[.ff]" is the record [h, m, s, f, frac]: frac   *)
(* tells whether the fractional part is written.                           *)
(***************************************************************************)
TimeStr(h, m, s, f, frac) == [h |-> h, m |-> m, s |-> s, f |-> f, frac |-> frac]

\* _time_to_seconds, in hundredths of a second.
TimeToSeconds(t) == t.h * 360000 + t.m * 6000 + t.s * 100 + t.f

\* _seconds_to_time: Python's // and % (floor division), as \div and % here.
SecondsToTime(seconds) ==
    [h |-> seconds \div 3600, m |-> (seconds % 3600) \div 60, s |-> seconds % 60]

(***************************************************************************)
(* Percentages are exact fractions [n, d] in lowest terms.                 *)
(***************************************************************************)
RECURSIVE Gcd(_, _)
Gcd(a, b) == IF b = 0 THEN a ELSE Gcd(b, a % b)

Frac(n, d) == LET g == Gcd(n, d) IN [n |-> n \div g, d |-> d \div g]

Whole(n) == [n |-> n, d |-> 1]

FracMin(p, q) == IF p.n * q.d <= q.n * p.d THEN p ELSE q

(***************************************************************************)
(* ProcessProgress (video_processor.py:23-33).  eta is "unknown" or the    *)
(* record written by _seconds_to_time; it is kept as a record with a kind. *)
(***************************************************************************)
NewProgress ==
    [percentage |-> Whole(0),
     time_processed |-> TimeStr(0, 0, 0, 0, FALSE),
     speed |-> "0x",
     bitrate |-> "0 kbits/s",
     fps |-> 0,
     eta |-> [k |-> "unknown", h |-> 0, m |-> 0, s |-> 0],
     current_frame |-> 0,
     total_frames |-> 0]

(***************************************************************************)
(* Diagnostic lines.  A line is its text and what the parser's tests and   *)
(* regular expressions find in it:                                         *)
(*   kw      an error keyword (error, failed, invalid, could not) occurs   *)
(*   marker  one of frame=, time=, size=, bitrate= occurs                  *)
(*   time    "none", "na" (time=N/A) or the matched timestamp              *)
(*   speed   "none", "na" (speed=N/A) or the matched digits-and-dots text  *)
(*   bitrate "none" or the matched value and unit                          *)
(*   fps     "none" or the float value in whole frames (-1: float raises)  *)
(*   frame   "none" or the matched integer                                 *)
(***************************************************************************)
NoTok == [k |-> "none"]

NaTok == [k |-> "na"]

TimeTok(t) == [k |-> "tok", t |-> t]

SpeedTok(txt) == [k |-> "tok", txt |-> txt]

BitrateTok(val, unit) == [k |-> "tok", val |-> val, unit |-> unit]

NumTok(n) == [k |-> "tok", v |-> n]

Line(text, kw, marker, time, speed, bitrate, fps, frame) ==
    [text |-> text, kw |-> kw, marker |-> marker, time |-> time, speed |-> speed,
     bitrate |-> bitrate, fps |-> fps, frame |-> frame]

\* readline() at end of file.
EofLine == Line("", FALSE, FALSE, NoTok, NoTok, NoTok, NoTok, NoTok)

ErrLine1 == Line("Error: Invalid data found", TRUE, FALSE, NoTok, NoTok, NoTok, NoTok, NoTok)

ProgLine1 ==
    Line("frame= 10 fps= 25 time=00:00:05.00 bitrate=1677.7kbits/s speed=2.0x",
         FALSE, TRUE, TimeTok(TimeStr(0, 0, 5, 0, TRUE)), SpeedTok("2.0"),
         BitrateTok("1677.7", "kbits/s"), NumTok(25), NumTok(10))

\* The lines the modelled external process writes to its stderr.
Lines == {ErrLine1, ProgLine1}

\* The total durations the caller passes to set_total_duration.
Durations == {TimeStr(0, 0, 10, 0, TRUE)}

\* _total_duration_seconds when the attribute is not set (hasattr is false).
NoTotal == -1

(***************************************************************************)
(* _parse_progress_line (video_processor.py:175-265) as a function of the  *)
(* line, the progress record, the failure reason and the total duration.   *)
(* The result is the new record, the new reason and whether the progress   *)
(* callback is called.                                                     *)
(***************************************************************************)
\* The time of the line stored as written, nothing appended.
ParseTimeAsWritten(line, p) ==
    IF line.time.k = "tok" THEN [p EXCEPT !.time_processed = line.time.t] ELSE p

ParseTime(line, p) ==
    IF line.time.k = "tok"
    THEN [p EXCEPT !.time_processed = [line.time.t EXCEPT !.frac = TRUE]]
    ELSE p

ParseSpeed(line, p) ==
    IF line.speed.k = "na" THEN [p EXCEPT !.speed = "N/A"]
    ELSE IF line.speed.k = "tok" THEN [p EXCEPT !.speed = line.speed.txt \o "x"]
    ELSE p

ParseBitrate(line, p) ==
    IF line.bitrate.k = "tok"
    THEN [p EXCEPT !.bitrate = line.bitrate.val \o " " \o line.bitrate.unit]
    ELSE p

ParseFps(line, p) ==
    IF line.fps.k = "tok" /\ line.fps.v >= 0 THEN [p EXCEPT !.fps = line.fps.v] ELSE p

ParseFrame(line, p) ==
    IF line.frame.k = "tok" THEN [p EXCEPT !.current_frame = line.frame.v] ELSE p

\* float(self.progress.speed.replace('x', '')) in tenths, tabulated for the
\* speed strings of the model; -1 when float() raises ("N/A", "." and the like).
SpeedValue(speed) ==
    CASE speed = "0x" -> 0
      [] speed = "0.0x" -> 0
      [] speed = "0.5x" -> 5
      [] speed = "1.0x" -> 10
      [] speed = "2.0x" -> 20
      [] OTHER -> -1

\* The ETA computed at speed 1.0 when the speed of the record is not positive.
ParseEtaDefaultSpeed(line, p, total, current_seconds) ==
    LET speed_value == IF SpeedValue(p.speed) > 0 THEN SpeedValue(p.speed) ELSE 10
        a == (total - current_seconds) * 10
        b == 100 * speed_value
        remaining == IF a >= 0 THEN a \div b ELSE -((-a) \div b)
        eta == SecondsToTime(remaining)
    IN  [p EXCEPT !.eta = [k |-> "time", h |-> eta.h, m |-> eta.m, s |-> eta.s]]

ParseEta(line, p, total, current_seconds) ==
    LET speed_value == SpeedValue(p.speed)
        \* hundredths of a second over tenths of the speed
        a == (total - current_seconds) * 10
        b == 100 * speed_value
        \* int(remaining_seconds) of line 252: truncation towards zero
        remaining == IF a >= 0 THEN a \div b ELSE -((-a) \div b)
        eta == SecondsToTime(remaining)
    IN  IF speed_value > 0
        THEN [p EXCEPT !.eta = [k |-> "time", h |-> eta.h, m |-> eta.m, s |-> eta.s]]
        ELSE p

\* The percentage without the min of line 246.
ParseDerivedUnclamped(line, p, total) ==
    IF total > 0
    THEN LET current_seconds == TimeToSeconds(p.time_processed)
         IN  IF current_seconds > 0
             THEN ParseEta(line,
                           [p EXCEPT !.percentage = Frac(current_seconds * 100, total)],
                           total, current_seconds)
             ELSE p
    ELSE p

ParseDerived(line, p, total) ==
    IF total > 0
    THEN LET current_seconds == TimeToSeconds(p.time_processed)
         IN  IF current_seconds > 0
             THEN ParseEta(line,
                           [p EXCEPT !.percentage =
                                FracMin(Whole(100), Frac(current_seconds * 100, total))],
                           total, current_seconds)
             ELSE p
    ELSE p

\* _parse_progress_line whose line 185 does not look at the reason recorded.
ParseProgressLineLastError(line, p, err, total) ==
    IF line.kw
    THEN [progress |-> p, error_message |-> line.text, notify |-> FALSE]
    ELSE IF ~line.marker
    THEN [progress |-> p, error_message |-> err, notify |-> FALSE]
    ELSE LET q == ParseDerived(line,
                     ParseFrame(line, ParseFps(line, ParseBitrate(line,
                         ParseSpeed(line, ParseTime(line, p))))), total)
         IN  [progress |-> q, error_message |-> err,
              notify |-> (8 + (IF q.time_processed.frac THEN 3 ELSE 0) > 0
                          \/ q.current_frame > 0)]

ParseProgressLine(line, p, err, total) ==
    IF line.kw
    THEN [progress |-> p,
          error_message |-> IF err = "" THEN line.text ELSE err,
          notify |-> FALSE]
    ELSE IF ~line.marker
    THEN [progress |-> p, error_message |-> err, notify |-> FALSE]
    ELSE LET q == ParseDerived(line,
                     ParseFrame(line, ParseFps(line, ParseBitrate(line,
                         ParseSpeed(line, ParseTime(line, p))))), total)
         IN  [progress |-> q, error_message |-> err,
              \* line 260: a Python string is true when its length is positive,
              \* and "HH:MM:SS" or "HH:MM:SS.ff" has 8 or 11 characters
              notify |-> (8 + (IF q.time_processed.frac THEN 3 ELSE 0) > 0
                          \/ q.current_frame > 0)]

(***************************************************************************)
(* The messages of the failure reason and of the status callback.          *)
(***************************************************************************)
\* The task_name of the start_process call made after n processes were spawned
\* (main_window.py:535: the label of the cut mode or of the subtitle mode).
TaskName(n) == IF n % 2 = 0 THEN "cut" ELSE "burn"

\* f"FFmpeg进程退出，返回码: {return_code}"
ExitMessage(return_code) == "FFmpeg exited, return code: " \o return_code

\* f"启动失败: {str(e)}"
SpawnMessage == "start failed: [Errno 2] No such file or directory"

\* f"监控进程出错: {str(e)}" for the AttributeError raised on self.process = None
MonitorMessage == "monitor error: 'NoneType' object has no attribute"

\* The callbacks registered by the GUI (main_window.py:42-43).
progress_callback == TRUE

status_callback == TRUE

\* What one step did that the subscribers and the caller see: the callback it
\* called, if any, and the method that returned, if any, with its value.  For
\* the status callback: the status passed and the message passed, as its kind
\* (the fixed text around the task label) and the failure reason put in it.
\* For the progress callback: kind tells the final call from a parsed line's.
Event(cb, st, kind, reason, op, ret) ==
    [cb |-> cb, status |-> st, kind |-> kind, reason |-> reason, op |-> op, ret |-> ret]

NoNote == Event("none", "", "", "", "", "")

StatusNote(st, kind, reason) ==
    IF status_callback THEN Event("status", st, kind, reason, "", "") ELSE NoNote

ProgressNote(kind) ==
    IF progress_callback THEN Event("progress", "", kind, "", "", "") ELSE NoNote

\* The step's event with the return of method op added.
Returning(note, op, value) == [note EXCEPT !.op = op, !.ret = value]

(***************************************************************************)
(* The state.                                                              *)
(***************************************************************************)
VARIABLES
    status,          \* self.status
    error_message,   \* self.error_message
    current_task,    \* self.current_task
    progress,        \* self.progress
    process,         \* self.process: 0 (None) or the run of the Popen object
    stop_event,      \* self._stop_event.is_set()
    total,           \* self._total_duration_seconds, NoTotal when not set
    cpc,             \* the caller thread's position
    cop,             \* the method the caller is in (reset calls stop_process)
    carg,            \* start_process' task_name
    mpc,             \* each monitoring thread's position in _monitor_progress
    mrc,             \* each monitoring thread's local return_code
    pst,             \* each external process: unborn, alive or exited
    pcode,           \* each external process' exit code
    prc,             \* each Popen object's returncode attribute
    sigterm,         \* each external process: SIGTERM is pending
    nruns,           \* the processes spawned so far
    stopped,         \* history: the runs during which stop_process raised the signal
    sent             \* what the last step sent to the subscribers or returned

supervisor == <<status, error_message, current_task, progress, process, stop_event, total>>

caller == <<cpc, cop, carg>>

monitors == <<mpc, mrc>>

procs == <<pst, pcode, prc, sigterm, nruns>>

vars == <<supervisor, caller, monitors, procs, stopped, sent>>

\* The state of the FFmpegManager and its GPUDetector.
VARIABLES
    ffmpeg_path,         \* FFmpegManager.ffmpeg_path
    version,             \* FFmpegManager.version
    is_valid,            \* FFmpegManager.is_valid
    ffmpeg_gpu_support,  \* GPUDetector.ffmpeg_gpu_support
    system,              \* GPUDetector.system: platform.system().lower()
    request,             \* the arguments of the last call of the manager
    result,              \* what the last call of the manager returned or raised
    available_gpus,      \* GPUDetector.available_gpus, each device by its vendor
    snapshot,            \* the device list and the flag mapping last returned by a probe
    dpc                  \* the position of the thread inside check_ffmpeg_gpu_support

detector == <<available_gpus, snapshot, dpc>>

manager == <<ffmpeg_path, version, is_valid, ffmpeg_gpu_support, system, request, result,
             detector>>

\* The threads that are inside a subscriber's callback, each with the position
\* from which it made the call.
VARIABLES incb

\* The state of the VideoProcessorManager (video_processor.py:436-499) and of
\* the VideoProcessor instances it has created.
VARIABLES
    processors,          \* self.processors: for each name the instance, 0 when absent
    active_processor,    \* self.active_processor, "" for None
    instances,           \* the status of each instance created, "" when not created
    rpc                  \* each calling thread's position, arguments and result

registry == <<processors, active_processor, instances, rpc>>

\* What no step of the VideoProcessor's methods, threads and processes changes.
outside == <<manager, incb, registry>>


\* __init__ (video_processor.py:39-48)
Init ==
    /\ status = IDLE
    /\ error_message = ""
    /\ current_task = ""
    /\ progress = NewProgress
    /\ process = 0
    /\ stop_event = FALSE
    /\ total = NoTotal
    /\ cpc = "ready"
    /\ cop = "none"
    /\ carg = ""
    /\ mpc = [r \in Runs |-> "none"]
    /\ mrc = [r \in Runs |-> "None"]
    /\ pst = [r \in Runs |-> "unborn"]
    /\ pcode = [r \in Runs |-> "None"]
    /\ prc = [r \in Runs |-> "None"]
    /\ sigterm = [r \in Runs |-> FALSE]
    /\ nruns = 0
    /\ stopped = {}
    /\ sent = NoNote

(***************************************************************************)
(* The caller thread.  A call is made when no call is in progress.         *)
(***************************************************************************)
\* The caller enters method op.
Call(op, arg) ==
    /\ cpc = "ready"
    /\ cpc' = op \o "_check"
    /\ cop' = op
    /\ carg' = arg
    /\ sent' = NoNote
    /\ UNCHANGED <<supervisor, monitors, procs, stopped>>
    /\ UNCHANGED outside

\* A step inside a call, from position `from` to position `to`.
CallerStep(from, to) ==
    /\ cpc = from
    /\ cpc' = to
    /\ sent' = NoNote
    /\ UNCHANGED <<cop, carg, monitors, procs>>
    /\ UNCHANGED outside

\* The outermost call returns value, having sent note.
Return(from, note, value) ==
    /\ cpc = from
    /\ cpc' = "ready"
    /\ cop' = "none"
    /\ carg' = ""
    /\ sent' = Returning(note, cop, value)
    /\ UNCHANGED <<monitors, procs>>
    /\ UNCHANGED outside

\* stop_process returns: to reset (video_processor.py:425) or to the caller.
StopReturn(from, note, value) ==
    IF cop = "reset"
    THEN /\ cpc = from
         /\ cpc' = "reset_status"
         /\ sent' = note
         /\ UNCHANGED <<cop, carg, monitors, procs, outside>>
    ELSE Return(from, note, value)

\* start_process (video_processor.py:68-125), statement by statement; the test of
\* line 79 is StartCheck.
StartProcess ==
    \* start_process is called (the calls are bounded by the processes left).
    \/ /\ nruns < MaxRuns
       /\ Call("start", TaskName(nruns))
    \* video_processor.py:84-85
    \/ /\ CallerStep("start_status", "start_progress")
       /\ current_task' = carg
       /\ status' = RUNNING
       /\ UNCHANGED <<error_message, progress, process, stop_event, total, stopped>>
    \* video_processor.py:86-87
    \/ /\ CallerStep("start_progress", "start_clear")
       /\ error_message' = ""
       /\ progress' = NewProgress
       /\ UNCHANGED <<status, current_task, process, stop_event, total, stopped>>
    \* video_processor.py:88
    \/ /\ CallerStep("start_clear", "start_popen")
       /\ stop_event' = FALSE
       /\ UNCHANGED <<status, error_message, current_task, progress, process, total, stopped>>
    \* video_processor.py:97-112: subprocess.Popen returns a new process, and the
    \* monitoring thread of the run is started
    \/ /\ cpc = "start_popen"
       /\ nruns < MaxRuns
       /\ cpc' = "start_notify"
       /\ nruns' = nruns + 1
       /\ pst' = [pst EXCEPT ![nruns + 1] = "alive"]
       /\ process' = nruns + 1
       /\ mpc' = [mpc EXCEPT ![nruns + 1] = "entry"]
       /\ sent' = NoNote
       /\ UNCHANGED <<status, error_message, current_task, progress, stop_event, total,
                      cop, carg, mrc, pcode, prc, sigterm, stopped>>
       /\ UNCHANGED outside
    \* video_processor.py:97-105 and 120-121: subprocess.Popen raises
    \/ /\ CallerStep("start_popen", "start_except")
       /\ status' = ERROR
       /\ UNCHANGED <<error_message, current_task, progress, process, stop_event, total,
                      stopped>>
    \* video_processor.py:115-118
    \/ /\ Return("start_notify", StatusNote(status, "started", ""), "True")
       /\ UNCHANGED <<supervisor, stopped>>
    \* video_processor.py:122
    \/ /\ CallerStep("start_except", "start_except_notify")
       /\ error_message' = SpawnMessage
       /\ UNCHANGED <<status, current_task, progress, process, stop_event, total, stopped>>
    \* video_processor.py:123-125
    \/ /\ Return("start_except_notify", StatusNote(status, "exception", error_message), "False")
       /\ UNCHANGED <<supervisor, stopped>>

\* start_process without the test of line 79: a Running instance is started again.
StartCheckNoTest ==
    /\ CallerStep("start_check", "start_status")
    /\ UNCHANGED <<supervisor, stopped>>

\* video_processor.py:79-81
StartCheck ==
    /\ IF status = RUNNING
       THEN Return("start_check", NoNote, "False")
       ELSE CallerStep("start_check", "start_status")
    /\ UNCHANGED <<supervisor, stopped>>

\* stop_process (video_processor.py:347-368); the test of line 354 is StopCheck.
StopProcess ==
    \/ Call("stop", "")
    \* video_processor.py:358
    \/ /\ CallerStep("stop_set", "stop_status")
       /\ stop_event' = TRUE
       /\ stopped' = IF process # 0 THEN stopped \cup {process} ELSE stopped
       /\ UNCHANGED <<status, error_message, current_task, progress, process, total>>
    \* video_processor.py:359
    \/ /\ CallerStep("stop_status", "stop_notify")
       /\ status' = CANCELLED
       /\ UNCHANGED <<error_message, current_task, progress, process, stop_event, total,
                      stopped>>
    \* video_processor.py:361-364
    \/ /\ StopReturn("stop_notify", StatusNote(status, "cancelled", ""), "True")
       /\ UNCHANGED <<supervisor, stopped>>

\* stop_process raising the stop signal before the test of line 354.
StopCheckSetsFirst ==
    /\ IF status # RUNNING
       THEN StopReturn("stop_check", NoNote, "False")
       ELSE CallerStep("stop_check", "stop_set")
    /\ stop_event' = TRUE
    /\ UNCHANGED <<status, error_message, current_task, progress, process, total, stopped>>

\* video_processor.py:354-355
StopCheck ==
    /\ IF status # RUNNING
       THEN StopReturn("stop_check", NoNote, "False")
       ELSE CallerStep("stop_check", "stop_set")
    /\ UNCHANGED <<supervisor, stopped>>

\* reset (video_processor.py:422-433)
Reset ==
    \/ Call("reset", "")
    \* video_processor.py:424-425
    \/ /\ CallerStep("reset_check", IF status = RUNNING THEN "stop_check" ELSE "reset_status")
       /\ UNCHANGED <<supervisor, stopped>>
    \* video_processor.py:427
    \/ /\ CallerStep("reset_status", "reset_progress")
       /\ status' = IDLE
       /\ UNCHANGED <<error_message, current_task, progress, process, stop_event, total,
                      stopped>>
    \* video_processor.py:428-430
    \/ /\ CallerStep("reset_progress", "reset_process")
       /\ progress' = NewProgress
       /\ error_message' = ""
       /\ current_task' = ""
       /\ UNCHANGED <<status, process, stop_event, total, stopped>>
    \* video_processor.py:431-433
    \/ /\ Return("reset_process", NoNote, "None")
       /\ process' = 0
       /\ total' = NoTotal
       /\ UNCHANGED <<status, error_message, current_task, progress, stop_event, stopped>>

\* set_total_duration (video_processor.py:335-345)
SetTotalDuration(duration_str) ==
    /\ cpc = "ready"
    /\ total' = TimeToSeconds(duration_str)
    /\ sent' = Returning(NoNote, "set_total_duration", "None")
    /\ UNCHANGED <<status, error_message, current_task, progress, process, stop_event,
                   caller, monitors, procs, stopped>>
    /\ UNCHANGED outside

Caller ==
    \/ StartProcess \/ StartCheck
    \/ StopProcess \/ StopCheck
    \/ Reset
    \/ \E duration_str \in Durations : SetTotalDuration(duration_str)

(***************************************************************************)
(* The external processes and their Popen objects.                         *)
(***************************************************************************)
\* The process ends by itself.
ProcExit(r, code) ==
    /\ pst[r] = "alive"
    /\ pst' = [pst EXCEPT ![r] = "exited"]
    /\ pcode' = [pcode EXCEPT ![r] = code]
    /\ sigterm' = [sigterm EXCEPT ![r] = FALSE]
    /\ sent' = NoNote
    /\ UNCHANGED <<supervisor, caller, monitors, prc, nruns, stopped>>
    /\ UNCHANGED outside

\* The process honours a pending SIGTERM; a process may also ignore it.
ProcTerminated(r) ==
    /\ pst[r] = "alive"
    /\ sigterm[r]
    /\ pst' = [pst EXCEPT ![r] = "exited"]
    /\ pcode' = [pcode EXCEPT ![r] = "-15"]
    /\ sigterm' = [sigterm EXCEPT ![r] = FALSE]
    /\ sent' = NoNote
    /\ UNCHANGED <<supervisor, caller, monitors, prc, nruns, stopped>>
    /\ UNCHANGED outside

\* Popen.poll() and Popen.wait() on an exited process set returncode.
Reaped(p) == [prc EXCEPT ![p] = pcode[p]]

(***************************************************************************)
(* The monitoring thread of run r: _monitor_progress                       *)
(* (video_processor.py:127-173) and _terminate_process (370-382).          *)
(* Every use of self.process reads the field anew; on None it raises       *)
(* AttributeError, which the handler of line 169 catches.  A thread that   *)
(* made the final progress callback ends at "done", one that returned at   *)
(* line 130 or from the handler of line 169 ends at "returned".            *)
(***************************************************************************)
\* A step of thread r from position `from` to position `to`.
MonitorStep(r, from, to) ==
    /\ mpc[r] = from
    /\ mpc' = [mpc EXCEPT ![r] = to]
    /\ UNCHANGED <<caller, stopped>>
    /\ UNCHANGED outside

\* _monitor_progress, lines 129-146, and _terminate_process (370-382), without
\* the readline of line 136.
MonitorLoop(r) ==
    \* video_processor.py:129-130
    \/ /\ MonitorStep(r, "entry", IF process = 0 THEN "returned" ELSE "loop")
       /\ sent' = NoNote
       /\ UNCHANGED <<supervisor, mrc, procs>>
    \* video_processor.py:134, entered from line 132 or after the sleep of line 146
    \/ /\ MonitorStep(r, "loop",
                      IF process = 0 THEN "except"
                      ELSE IF pst[process] = "exited" \/ stop_event THEN "post"
                      ELSE "read")
       /\ prc' = IF process # 0 /\ pst[process] = "exited" THEN Reaped(process) ELSE prc
       /\ sent' = NoNote
       /\ UNCHANGED <<supervisor, mrc, pst, pcode, sigterm, nruns>>
    \* video_processor.py:135 with self.process = None
    \/ /\ MonitorStep(r, "read", "except")
       /\ process = 0
       /\ sent' = NoNote
       /\ UNCHANGED <<supervisor, mrc, procs>>
    \* video_processor.py:142-146
    \/ /\ MonitorStep(r, "check_stop", IF stop_event THEN "terminate" ELSE "loop")
       /\ sent' = NoNote
       /\ UNCHANGED <<supervisor, mrc, procs>>
    \* video_processor.py:372-374
    \/ /\ MonitorStep(r, "terminate", IF process = 0 THEN "post" ELSE "wait")
       /\ sigterm' = IF process # 0 /\ pst[process] = "alive"
                     THEN [sigterm EXCEPT ![process] = TRUE]
                     ELSE sigterm
       /\ sent' = NoNote
       /\ UNCHANGED <<supervisor, mrc, pst, pcode, prc, nruns>>
    \* video_processor.py:376-378 and 381: wait(timeout=5) returns, times out or raises
    \/ /\ MonitorStep(r, "wait",
                      IF process = 0 \/ pst[process] = "exited" THEN "post" ELSE "kill")
       /\ prc' = IF process # 0 /\ pst[process] = "exited" THEN Reaped(process) ELSE prc
       /\ sent' = NoNote
       /\ UNCHANGED <<supervisor, mrc, pst, pcode, sigterm, nruns>>
    \* video_processor.py:379-381
    \/ /\ MonitorStep(r, "kill", "post")
       /\ IF process = 0
          THEN UNCHANGED <<pst, pcode, prc>>
          ELSE LET code == IF pst[process] = "alive" THEN "-9" ELSE pcode[process]
               IN  /\ pst' = [pst EXCEPT ![process] = "exited"]
                   /\ pcode' = [pcode EXCEPT ![process] = code]
                   /\ prc' = [prc EXCEPT ![process] = code]
       /\ sigterm' = IF process = 0 THEN sigterm ELSE [sigterm EXCEPT ![process] = FALSE]
       /\ sent' = NoNote
       /\ UNCHANGED <<supervisor, mrc, nruns>>

\* video_processor.py:135-139: readline returns a line the process wrote, or ""
\* at the end of the stream of an exited process
MonRead(r, line) ==
    /\ MonitorStep(r, "read", "check_stop")
    /\ process # 0
    /\ line = EofLine => pst[process] = "exited"
    /\ LET parsed == IF line.text = ""
                     THEN [progress |-> progress, error_message |-> error_message,
                           notify |-> FALSE]
                     ELSE ParseProgressLine(line, progress, error_message, total)
       IN  /\ progress' = parsed.progress
           /\ error_message' = parsed.error_message
           /\ sent' = IF parsed.notify THEN ProgressNote("line") ELSE NoNote
    /\ UNCHANGED <<status, current_task, process, stop_event, total, mrc, procs>>

\* The branch of line 151 taking a captured error line for a failure.
MonPostErrorLineFails(r) ==
    /\ mpc[r] = "post"
    /\ mpc' = [mpc EXCEPT ![r] =
                 IF stop_event THEN "final"
                 ELSE IF process = 0 THEN "except"
                 ELSE IF prc[process] = "0" /\ error_message = "" THEN "completed"
                 ELSE "error"]
    /\ mrc' = [mrc EXCEPT ![r] = IF ~stop_event /\ process # 0 THEN prc[process] ELSE @]
    /\ sent' = NoNote
    /\ UNCHANGED <<supervisor, caller, procs, stopped>>
    /\ UNCHANGED outside

\* video_processor.py:149-151 and 156
MonPost(r) ==
    /\ mpc[r] = "post"
    /\ mpc' = [mpc EXCEPT ![r] =
                 IF stop_event THEN "final"
                 ELSE IF process = 0 THEN "except"
                 ELSE IF prc[process] = "0" THEN "completed"
                 ELSE "error"]
    /\ mrc' = [mrc EXCEPT ![r] = IF ~stop_event /\ process # 0 THEN prc[process] ELSE @]
    /\ sent' = NoNote
    /\ UNCHANGED <<supervisor, caller, procs, stopped>>
    /\ UNCHANGED outside

\* The branch of return code 0 without the call of lines 154-155.
MonCompletedSilent(r) ==
    \/ /\ MonitorStep(r, "completed", "completed_percentage")
       /\ status' = COMPLETED
       /\ mrc' = [mrc EXCEPT ![r] = "None"]
       /\ sent' = NoNote
       /\ UNCHANGED <<error_message, current_task, progress, process, stop_event, total,
                      procs>>
    \/ /\ MonitorStep(r, "completed_percentage", "completed_notify")
       /\ progress' = [progress EXCEPT !.percentage = Whole(100)]
       /\ sent' = NoNote
       /\ UNCHANGED <<status, error_message, current_task, process, stop_event, total,
                      mrc, procs>>
    \/ /\ MonitorStep(r, "completed_notify", "final")
       /\ sent' = NoNote
       /\ UNCHANGED <<supervisor, mrc, procs>>

\* _monitor_progress, lines 152-155: the branch of return code 0.
MonCompleted(r) ==
    \* video_processor.py:152 (return_code is not used after line 151)
    \/ /\ MonitorStep(r, "completed", "completed_percentage")
       /\ status' = COMPLETED
       /\ mrc' = [mrc EXCEPT ![r] = "None"]
       /\ sent' = NoNote
       /\ UNCHANGED <<error_message, current_task, progress, process, stop_event, total,
                      procs>>
    \* video_processor.py:153
    \/ /\ MonitorStep(r, "completed_percentage", "completed_notify")
       /\ progress' = [progress EXCEPT !.percentage = Whole(100)]
       /\ sent' = NoNote
       /\ UNCHANGED <<status, error_message, current_task, process, stop_event, total,
                      mrc, procs>>
    \* video_processor.py:154-155
    \/ /\ MonitorStep(r, "completed_notify", "final")
       /\ sent' = StatusNote(status, "done", "")
       /\ UNCHANGED <<supervisor, mrc, procs>>

\* _monitor_progress, lines 157-163: the branch of another return code.
MonError(r) ==
    \* video_processor.py:157
    \/ /\ MonitorStep(r, "error", "error_message")
       /\ status' = ERROR
       /\ sent' = NoNote
       /\ UNCHANGED <<error_message, current_task, progress, process, stop_event, total,
                      mrc, procs>>
    \* video_processor.py:159-160 (return_code is not used after line 160)
    \/ /\ MonitorStep(r, "error_message", "error_notify")
       /\ error_message' = IF error_message = "" THEN ExitMessage(mrc[r]) ELSE error_message
       /\ mrc' = [mrc EXCEPT ![r] = "None"]
       /\ sent' = NoNote
       /\ UNCHANGED <<status, current_task, progress, process, stop_event, total, procs>>
    \* video_processor.py:162-163
    \/ /\ MonitorStep(r, "error_notify", "final")
       /\ sent' = StatusNote(status, "failed", error_message)
       /\ UNCHANGED <<supervisor, mrc, procs>>

\* video_processor.py:166-167, then the thread ends
MonFinal(r) ==
    /\ MonitorStep(r, "final", "done")
    /\ sent' = ProgressNote("final")
    /\ UNCHANGED <<supervisor, mrc, procs>>

\* _monitor_progress, lines 169-173: the handler.
MonExcept(r) ==
    \* video_processor.py:170
    \/ /\ MonitorStep(r, "except", "except_message")
       /\ status' = ERROR
       /\ sent' = NoNote
       /\ UNCHANGED <<error_message, current_task, progress, process, stop_event, total,
                      mrc, procs>>
    \* video_processor.py:171
    \/ /\ MonitorStep(r, "except_message", "except_notify")
       /\ error_message' = MonitorMessage
       /\ sent' = NoNote
       /\ UNCHANGED <<status, current_task, progress, process, stop_event, total,
                      mrc, procs>>
    \* video_processor.py:172-173, then the thread ends
    \/ /\ MonitorStep(r, "except_notify", "returned")
       /\ sent' = StatusNote(status, "exception", error_message)
       /\ UNCHANGED <<supervisor, mrc, procs>>

Monitor(r) ==
    \/ MonitorLoop(r)
    \/ \E line \in Lines \cup {EofLine} : MonRead(r, line)
    \/ MonPost(r)
    \/ MonCompleted(r)
    \/ MonError(r)
    \/ MonFinal(r)
    \/ MonExcept(r)

Process(r) ==
    \/ \E code \in {"0", "1"} : ProcExit(r, code)
    \/ ProcTerminated(r)

Next ==
    \/ Caller
    \/ \E r \in Runs : Monitor(r)
    \/ \E r \in Runs : Process(r)

(***************************************************************************)
(* FFmpegManager (ffmpeg_manager.py) and its GPUDetector                   *)
(* (gpu_detector.py): the verified binary path, the capability snapshot    *)
(* and the command builders.                                               *)
(***************************************************************************)
\* The keys of ffmpeg_gpu_support (gpu_detector.py:27-34).
HwAccels == {"cuda", "opencl", "dxva2", "d3d11va"}

Encoders == {"nvenc", "amf"}

NoSupport == [k \in HwAccels \cup Encoders |-> FALSE]

\* What a call gives: a value returned or an exception raised.
Returned(value) == [kind |-> "returned", value |-> value]

Raised(exception) == [kind |-> "raised", value |-> exception]

\* What `ffmpeg -version` gives _get_version_info: a version number, an
\* output without one, a non-zero return code or an exception.
Versions == {"6.0", "7.1"}

\* _get_version_info (ffmpeg_manager.py:130-154)
get_version_info(reported) ==
    CASE reported \in Versions -> reported
      [] reported = "no version" -> "unknown version"
      [] reported = "failed" -> version
      [] reported = "raised" -> "version lookup failed"

\* The requests passed to the builders.
InputFiles == {"a.mp4", "./in//a b.mp4"}

OutputFiles == {"out/a_cut.mp4"}

Times == {"00:00:10", "00:00:20"}

GpuModes == {"cuda", "amd", "cpu"}

Qualities == {"low", "medium", "high", "best"}

\* time_to_seconds (ffmpeg_manager.py:513-531) on the times above.
time_to_seconds(time_str) ==
    CASE time_str = "00:00:10" -> 0 * 3600 + 0 * 60 + 10
      [] time_str = "00:00:20" -> 0 * 3600 + 0 * 60 + 20

\* os.path.normpath on the paths above: posixpath on Linux, ntpath on Windows.
normpath(file_path) ==
    IF system = "windows"
    THEN CASE file_path = "./in//a b.mp4" -> "in\\a b.mp4"
           [] file_path = "out/a_cut.mp4" -> "out\\a_cut.mp4"
           [] OTHER -> file_path
    ELSE CASE file_path = "./in//a b.mp4" -> "in/a b.mp4"
           [] OTHER -> file_path

\* _make_safe_path (ffmpeg_manager.py:255-301); the paths above are shorter
\* than the 260 characters from which Windows' short path name is asked.
make_safe_path(file_path) == normpath(file_path)

\* The subtitle path with its backslashes and quotes escaped
\* (ffmpeg_manager.py:397), on the safe paths of the subtitle files above.
EscapedSubtitlePath(safe_path) ==
    CASE safe_path = "sub\\it's.srt" -> "sub/it\\'s.srt"
      [] OTHER -> safe_path

\* The colour names that are tried: the palette as written in color_map, other
\* spellings of it, and names that are not in it.
ColorNames ==
    {"white", "black", "red", "green", "blue", "yellow", "cyan", "magenta",
     "White", "BLACK", "Red", "GREEN", "bLuE", "Yellow", "CYAN", "Magenta",
     "orange", "Orange", "", "#ff0000", "whit", "white "}

\* str.lower on the strings of ColorNames (ffmpeg_manager.py:472).
lower(str) ==
    CASE str = "White" -> "white"
      [] str = "BLACK" -> "black"
      [] str = "Red" -> "red"
      [] str = "GREEN" -> "green"
      [] str = "bLuE" -> "blue"
      [] str = "Yellow" -> "yellow"
      [] str = "CYAN" -> "cyan"
      [] str = "Magenta" -> "magenta"
      [] str = "Orange" -> "orange"
      [] OTHER -> str

\* color_map (ffmpeg_manager.py:462-471) and the lookup with its default (472).
color_map ==
    [white |-> "FFFFFF", black |-> "000000", red |-> "FF0000", green |-> "00FF00",
     blue |-> "0000FF", yellow |-> "FFFF00", cyan |-> "00FFFF", magenta |-> "FF00FF"]

\* _color_to_hex looking the name up as it was given.
color_to_hex_exact_case(color_name) ==
    IF color_name \in DOMAIN color_map THEN color_map[color_name] ELSE "FFFFFF"

\* _color_to_hex (ffmpeg_manager.py:452-472)
color_to_hex(color_name) ==
    IF lower(color_name) \in DOMAIN color_map THEN color_map[lower(color_name)] ELSE "FFFFFF"

\* The parameters of GPUDetector.get_gpu_acceleration_args besides self
\* (gpu_detector.py:295).
AccelerationArgsParams == {"mode"}

\* get_gpu_acceleration_args (gpu_detector.py:295-313)
get_gpu_acceleration_args(mode) ==
    IF mode = "cuda" /\ ffmpeg_gpu_support["cuda"] THEN <<"-hwaccel", "cuda">>
    ELSE IF mode = "amd" /\ ffmpeg_gpu_support["opencl"] THEN <<"-hwaccel", "opencl">>
    ELSE IF mode = "amd" /\ system = "windows" /\ ffmpeg_gpu_support["d3d11va"]
         THEN <<"-hwaccel", "d3d11va">>
    ELSE <<>>

\* get_gpu_encoder (gpu_detector.py:315-331) with codec "h264"; "" is None.
get_gpu_encoder(mode) ==
    IF mode = "cuda" /\ ffmpeg_gpu_support["nvenc"] THEN "h264_nvenc"
    ELSE IF mode = "amd" /\ ffmpeg_gpu_support["amf"] THEN "h264_amf"
    ELSE ""

\* _get_quality_settings with the amd branch of lines 436-442 taken for cuda only.
get_quality_settings_one_gpu_table(quality, gpu_mode) ==
    LET key == IF quality \in {"low", "medium", "high"} THEN quality ELSE "medium"
    IN  IF gpu_mode \in {"cuda", "amd"}
        THEN CASE key = "low" -> <<"-preset", "fast", "-b:v", "3M">>
               [] key = "medium" -> <<"-preset", "medium", "-b:v", "5M">>
               [] key = "high" -> <<"-preset", "slow", "-b:v", "8M">>
        ELSE CASE key = "low" -> <<"-preset", "fast", "-crf", "28">>
               [] key = "medium" -> <<"-preset", "medium", "-crf", "23">>
               [] key = "high" -> <<"-preset", "slow", "-crf", "18">>

\* _get_quality_settings (ffmpeg_manager.py:417-450)
get_quality_settings(quality, gpu_mode) ==
    LET key == IF quality \in {"low", "medium", "high"} THEN quality ELSE "medium"
    IN  IF gpu_mode = "cuda"
        THEN CASE key = "low" -> <<"-preset", "fast", "-b:v", "3M">>
               [] key = "medium" -> <<"-preset", "medium", "-b:v", "5M">>
               [] key = "high" -> <<"-preset", "slow", "-b:v", "8M">>
        ELSE IF gpu_mode = "amd"
        THEN CASE key = "low" -> <<"-b:v", "3M">>
               [] key = "medium" -> <<"-b:v", "5M">>
               [] key = "high" -> <<"-b:v", "8M">>
        ELSE CASE key = "low" -> <<"-preset", "fast", "-crf", "28">>
               [] key = "medium" -> <<"-preset", "medium", "-crf", "23">>
               [] key = "high" -> <<"-preset", "slow", "-crf", "18">>

\* The message of the ValueError of lines 325 and 382, and Python's TypeError
\* for a keyword argument the called function does not have.
InvalidPathError == "ValueError: FFmpeg path invalid"

\* The call self.gpu_detector.get_gpu_acceleration_args(gpu_mode, advanced=True)
\* of lines 330 and 387: Python binds the keyword to a parameter or raises.
AccelerationArgsCall(gpu_mode, keywords) ==
    IF keywords \subseteq AccelerationArgsParams
    THEN Returned(get_gpu_acceleration_args(gpu_mode))
    ELSE Raised("TypeError: unexpected keyword argument '"
                    \o (CHOOSE k \in keywords : k \notin AccelerationArgsParams) \o "'")

\* Lines 340-345 and 400-405: the encoder arguments.
EncoderArgs(gpu_mode) ==
    LET video_encoder == get_gpu_encoder(gpu_mode)
    IN  IF video_encoder # "" THEN <<"-c:v", video_encoder>> ELSE <<"-c:v", "libx264">>

\* build_cut_command (ffmpeg_manager.py:303-358)
build_cut_command(input_file, output_file, start_time, end_time, gpu_mode, quality) ==
    IF ~is_valid THEN Raised(InvalidPathError)
    ELSE LET gpu_args == AccelerationArgsCall(gpu_mode, {"advanced"})
         IN  IF gpu_args.kind = "raised" THEN gpu_args
             ELSE Returned(<<ffmpeg_path>> \o gpu_args.value
                           \o <<"-ss", start_time, "-to", end_time>>
                           \o <<"-i", make_safe_path(input_file)>>
                           \o EncoderArgs(gpu_mode)
                           \o get_quality_settings(quality, gpu_mode)
                           \o <<"-c:a", "copy">>
                           \o <<make_safe_path(output_file)>>)

\* The subtitles filter of line 398, with font size 24.
SubtitleFilter(subtitle_file, font_color) ==
    "subtitles='" \o EscapedSubtitlePath(make_safe_path(subtitle_file))
        \o "':force_style='FontSize=24,PrimaryColour=&H" \o color_to_hex(font_color) \o "'"

\* build_subtitle_burn_command (ffmpeg_manager.py:360-415)
build_subtitle_burn_command(input_file, subtitle_file, output_file, gpu_mode, font_color) ==
    IF ~is_valid THEN Raised(InvalidPathError)
    ELSE LET gpu_args == AccelerationArgsCall(gpu_mode, {"advanced"})
         IN  IF gpu_args.kind = "raised" THEN gpu_args
             ELSE Returned(<<ffmpeg_path>> \o gpu_args.value
                           \o <<"-i", make_safe_path(input_file)>>
                           \o <<"-vf", SubtitleFilter(subtitle_file, font_color)>>
                           \o EncoderArgs(gpu_mode)
                           \o <<"-c:a", "copy">>
                           \o <<make_safe_path(output_file)>>)

\* No call of detect_gpus or check_ffmpeg_gpu_support is under way.
Idle == [at |-> "idle"]

ManagerInit ==
    /\ ffmpeg_path = ""
    /\ version = ""
    /\ is_valid = FALSE
    /\ ffmpeg_gpu_support = NoSupport
    /\ system \in {"linux", "windows"}
    /\ request = [op |-> "none"]
    /\ result = Returned("None")
    /\ available_gpus = <<>>
    /\ snapshot = [held |-> {}, devices |-> <<>>, flags |-> NoSupport]
    /\ dpc = Idle

\* check_ffmpeg_gpu_support (gpu_detector.py:213-274): `ffmpeg -hwaccels` lists
\* the accelerators hw, or fails and leaves the four flags (hw = {"failed"});
\* `ffmpeg -encoders` likewise for the two encoder flags.
check_ffmpeg_gpu_support(hw, enc) ==
    [k \in HwAccels \cup Encoders |->
        IF k \in HwAccels
        THEN IF hw = {"failed"} THEN ffmpeg_gpu_support[k] ELSE k \in hw
        ELSE IF enc = {"failed"} THEN ffmpeg_gpu_support[k] ELSE k \in enc]

\* set_ffmpeg_path whose failure branch forgets to clear the valid flag.
SetFfmpegPathKeepsValid(path, ok, reported, gpus, hw, enc) ==
    /\ IF ok
       THEN /\ ffmpeg_path' = path
            /\ is_valid' = TRUE
            /\ version' = get_version_info(reported)
            /\ available_gpus' = gpus
            /\ ffmpeg_gpu_support' = check_ffmpeg_gpu_support(hw, enc)
       ELSE /\ ffmpeg_path' = ""
            /\ version' = ""
            /\ UNCHANGED <<is_valid, ffmpeg_gpu_support, available_gpus>>
    /\ request' = [op |-> "set_ffmpeg_path", path |-> path]
    /\ result' = Returned(IF ok THEN "True" ELSE "False")
    /\ dpc = Idle    \* no probe of another thread is under way
    /\ UNCHANGED <<system, snapshot, dpc>>
    /\ UNCHANGED <<vars, incb, registry>>

\* set_ffmpeg_path (ffmpeg_manager.py:104-128).  _test_ffmpeg_path's answer
\* (ok) and the outputs of the binary are the environment's.
SetFfmpegPath(path, ok, reported, gpus, hw, enc) ==
    /\ IF ok
       THEN /\ ffmpeg_path' = path
            /\ is_valid' = TRUE
            /\ version' = get_version_info(reported)
            /\ available_gpus' = gpus
            /\ ffmpeg_gpu_support' = check_ffmpeg_gpu_support(hw, enc)
       ELSE /\ ffmpeg_path' = ""
            /\ is_valid' = FALSE
            /\ version' = ""
            /\ UNCHANGED <<ffmpeg_gpu_support, available_gpus>>
    /\ request' = [op |-> "set_ffmpeg_path", path |-> path]
    /\ result' = Returned(IF ok THEN "True" ELSE "False")
    /\ dpc = Idle    \* no probe of another thread is under way
    /\ UNCHANGED <<system, snapshot, dpc>>
    /\ UNCHANGED <<vars, incb, registry>>

\* A call of build_cut_command.
BuildCut(input_file, output_file, start_time, end_time, gpu_mode, quality) ==
    /\ request' = [op |-> "build_cut_command", input_file |-> input_file,
                   output_file |-> output_file, start_time |-> start_time,
                   end_time |-> end_time, gpu_mode |-> gpu_mode, quality |-> quality]
    /\ result' = build_cut_command(input_file, output_file, start_time, end_time,
                                   gpu_mode, quality)
    /\ UNCHANGED <<ffmpeg_path, version, is_valid, ffmpeg_gpu_support, system, detector>>
    /\ UNCHANGED <<vars, incb, registry>>

\* A call of build_subtitle_burn_command.
BuildSubtitle(input_file, subtitle_file, output_file, gpu_mode, font_color) ==
    /\ request' = [op |-> "build_subtitle_burn_command", input_file |-> input_file,
                   subtitle_file |-> subtitle_file, output_file |-> output_file,
                   gpu_mode |-> gpu_mode, font_color |-> font_color]
    /\ result' = build_subtitle_burn_command(input_file, subtitle_file, output_file,
                                             gpu_mode, font_color)
    /\ UNCHANGED <<ffmpeg_path, version, is_valid, ffmpeg_gpu_support, system, detector>>
    /\ UNCHANGED <<vars, incb, registry>>

\* The manager's settings and the detector, which a pure helper leaves alone.
settings == <<ffmpeg_path, version, is_valid, ffmpeg_gpu_support, system, detector>>

\* A call of _get_quality_settings.
QualitySettings(quality, gpu_mode) ==
    /\ request' = [op |-> "_get_quality_settings", quality |-> quality, gpu_mode |-> gpu_mode]
    /\ result' = Returned(get_quality_settings(quality, gpu_mode))
    /\ UNCHANGED settings
    /\ UNCHANGED <<vars, incb, registry>>

\* A call of get_gpu_acceleration_args as its signature allows it.
AccelerationArgs(mode) ==
    /\ request' = [op |-> "get_gpu_acceleration_args", mode |-> mode]
    /\ result' = AccelerationArgsCall(mode, {})
    /\ UNCHANGED settings
    /\ UNCHANGED <<vars, incb, registry>>

\* A call of _color_to_hex.
ColorToHex(color_name) ==
    /\ request' = [op |-> "_color_to_hex", color_name |-> color_name]
    /\ result' = Returned(color_to_hex(color_name))
    /\ UNCHANGED settings
    /\ UNCHANGED <<vars, incb, registry>>

\* What the binary and the host answer during one set_ffmpeg_path.
Probe(reported, gpus, hw, enc) == [version |-> reported, gpus |-> gpus, hw |-> hw, enc |-> enc]

Probes ==
    {Probe("6.0", <<>>, {}, {}),
     Probe("7.1", <<"nvidia">>, {"cuda"}, {"nvenc"}),
     Probe("no version", <<"amd">>, {"opencl"}, {"amf"}),
     Probe("failed", <<"intel", "nvidia", "amd">>, {"cuda", "opencl", "d3d11va", "dxva2"},
           {"nvenc", "amf"}),
     Probe("6.0", <<"amd">>, {"d3d11va", "dxva2"}, {"amf"}),
     Probe("raised", <<"nvidia">>, {"failed"}, {"nvenc"}),
     Probe("6.0", <<"amd">>, {"cuda"}, {"failed"}),
     Probe("7.1", <<>>, {"failed"}, {"failed"})}

(***************************************************************************)
(* GPUDetector on its own: the probing thread of the window                *)
(* (main_window.py:400-435) runs detect_gpus and check_ffmpeg_gpu_support  *)
(* step by step, while the main thread reads the detector                  *)
(* (main_window.py:722).                                                   *)
(***************************************************************************)
MaxGpus == 2

\* What the detector leaves alone.
beside == <<ffmpeg_path, version, is_valid, system, vars, incb, registry>>

\* get_recommended_gpu_mode with the amd test of lines 289-291 placed first.
get_recommended_gpu_mode_amd_first ==
    LET nvidia_gpus == SelectSeq(available_gpus, LAMBDA gpu : gpu = "nvidia")
        amd_gpus == SelectSeq(available_gpus, LAMBDA gpu : gpu = "amd")
    IN  IF amd_gpus # <<>> /\ (ffmpeg_gpu_support["amf"] \/ ffmpeg_gpu_support["opencl"])
        THEN "amd"
        ELSE IF nvidia_gpus # <<>> /\ ffmpeg_gpu_support["cuda"] THEN "cuda"
        ELSE "cpu"

\* get_recommended_gpu_mode (gpu_detector.py:276-293)
get_recommended_gpu_mode ==
    LET nvidia_gpus == SelectSeq(available_gpus, LAMBDA gpu : gpu = "nvidia")
        amd_gpus == SelectSeq(available_gpus, LAMBDA gpu : gpu = "amd")
    IN  IF nvidia_gpus # <<>> /\ ffmpeg_gpu_support["cuda"] THEN "cuda"
        ELSE IF amd_gpus # <<>> /\ (ffmpeg_gpu_support["amf"] \/ ffmpeg_gpu_support["opencl"])
        THEN "amd"
        ELSE "cpu"

\* detect_gpus, line 43: the attribute is bound to a new empty list. The list
\* an earlier call returned is another object and keeps its elements.
DetectBegin ==
    /\ dpc = Idle
    /\ dpc' = [at |-> "detecting"]
    /\ available_gpus' = <<>>
    /\ UNCHANGED <<ffmpeg_gpu_support, snapshot, request, result>>
    /\ UNCHANGED beside

\* One append of a device found (lines 99, 127, 156, 182).
DetectAppend(vendor) ==
    /\ dpc.at = "detecting"
    /\ Len(available_gpus) < MaxGpus
    /\ available_gpus' = Append(available_gpus, vendor)
    /\ UNCHANGED <<ffmpeg_gpu_support, snapshot, request, result, dpc>>
    /\ UNCHANGED beside

\* detect_gpus, line 55: the list is returned.
DetectReturn ==
    /\ dpc.at = "detecting"
    /\ dpc' = Idle
    /\ request' = [op |-> "detect_gpus"]
    /\ result' = Returned(available_gpus)
    /\ snapshot' = [snapshot EXCEPT !.held = @ \cup {"devices"},
                                    !.devices = available_gpus]
    /\ UNCHANGED <<ffmpeg_gpu_support, available_gpus>>
    /\ UNCHANGED beside

\* check_ffmpeg_gpu_support returns at line 224 or 274: always the dict of the
\* detector itself.
ProbeReturn(ffmpeg_path_arg, hw, enc) ==
    /\ dpc' = Idle
    /\ request' = [op |-> "check_ffmpeg_gpu_support", ffmpeg_path |-> ffmpeg_path_arg,
                   hw |-> hw, enc |-> enc]
    /\ result' = Returned(ffmpeg_gpu_support')
    /\ snapshot' = [snapshot EXCEPT !.held = @ \cup {"flags"},
                                    !.flags = ffmpeg_gpu_support']

\* check_ffmpeg_gpu_support with an empty path (lines 223-224).
ProbeNoPath ==
    /\ dpc = Idle
    /\ UNCHANGED <<ffmpeg_gpu_support, available_gpus>>
    /\ ProbeReturn("", {"not run"}, {"not run"})
    /\ UNCHANGED beside

\* Lines 226-244: `ffmpeg -hwaccels` is run; hw is what it lists, {"failed"}
\* for a non-zero exit, {"raised"} for a timeout or a binary that cannot be
\* run, which ends the call in the handler of lines 271-272.
ProbeHwaccels(ffmpeg_path_arg, hw) ==
    /\ dpc = Idle
    /\ IF hw = {"raised"}
       THEN /\ UNCHANGED ffmpeg_gpu_support
            /\ ProbeReturn(ffmpeg_path_arg, hw, {"not run"})
       ELSE /\ ffmpeg_gpu_support' = check_ffmpeg_gpu_support(hw, {"failed"})
            /\ dpc' = [at |-> "encoders", ffmpeg_path |-> ffmpeg_path_arg, hw |-> hw]
            /\ UNCHANGED <<snapshot, request, result>>
    /\ UNCHANGED available_gpus
    /\ UNCHANGED beside

\* Lines 246-274: `ffmpeg -encoders` is run, with the same outcomes.
ProbeEncoders(enc) ==
    /\ dpc.at = "encoders"
    /\ ffmpeg_gpu_support' =
           check_ffmpeg_gpu_support({"failed"}, IF enc = {"raised"} THEN {"failed"} ELSE enc)
    /\ ProbeReturn(dpc.ffmpeg_path, dpc.hw, enc)
    /\ UNCHANGED available_gpus
    /\ UNCHANGED beside

\* A call of get_recommended_gpu_mode by the main thread; the request keeps
\* the attributes it read.
Recommend ==
    /\ request' = [op |-> "get_recommended_gpu_mode", available_gpus |-> available_gpus,
                   ffmpeg_gpu_support |-> ffmpeg_gpu_support]
    /\ result' = Returned(get_recommended_gpu_mode)
    /\ UNCHANGED <<ffmpeg_gpu_support, detector>>
    /\ UNCHANGED beside

\* A call of get_gpu_summary by the main thread (gpu_detector.py:333-354): the
\* devices are copied into a new list, the flags are the dict of the detector.
GpuSummary ==
    /\ request' = [op |-> "get_gpu_summary"]
    /\ result' = Returned([detected_gpus |-> available_gpus,
                           ffmpeg_support |-> ffmpeg_gpu_support,
                           recommended_mode |-> get_recommended_gpu_mode,
                           system |-> system])
    /\ snapshot' = [held |-> {"devices", "flags"}, devices |-> available_gpus,
                    flags |-> ffmpeg_gpu_support]
    /\ UNCHANGED <<ffmpeg_gpu_support, available_gpus, dpc>>
    /\ UNCHANGED beside

\* The flag mapping as the holder of the last returned snapshot reads it now:
\* what was returned is the one dict made at line 27, which lines 241-266
\* assign into.
HeldFlags == IF "flags" \in snapshot.held THEN ffmpeg_gpu_support ELSE snapshot.flags

DetectorNext ==
    \/ DetectBegin
    \/ \E vendor \in {"nvidia", "amd", "intel"} : DetectAppend(vendor)
    \/ DetectReturn
    \/ ProbeNoPath
    \/ \E hw \in {{}, {"cuda"}, {"opencl"}, {"cuda", "opencl", "d3d11va", "dxva2"},
                  {"failed"}, {"raised"}} : ProbeHwaccels("/usr/bin/ffmpeg", hw)
    \/ \E enc \in {{}, {"nvenc"}, {"amf"}, {"nvenc", "amf"}, {"failed"}, {"raised"}} :
          ProbeEncoders(enc)
    \/ Recommend
    \/ GpuSummary

ManagerNext ==
    \/ \E mode \in GpuModes : AccelerationArgs(mode)
    \/ \E color_name \in ColorNames : ColorToHex(color_name)
    \/ \E quality \in Qualities, gpu_mode \in GpuModes : QualitySettings(quality, gpu_mode)
    \/ \E path \in {"/usr/bin/ffmpeg", "/opt/ffmpeg*/bin/ffmpeg"}, ok \in BOOLEAN,
          probe \in Probes :
          SetFfmpegPath(path, ok, probe.version, probe.gpus, probe.hw, probe.enc)
    \/ \E input_file \in InputFiles, output_file \in OutputFiles,
          start_time \in Times, end_time \in Times,
          gpu_mode \in GpuModes, quality \in Qualities :
          BuildCut(input_file, output_file, start_time, end_time, gpu_mode, quality)
    \/ \E input_file \in InputFiles, subtitle_file \in {"s.srt", "sub\\it's.srt"},
          output_file \in OutputFiles, gpu_mode \in GpuModes,
          font_color \in {"white", "Yellow"} :
          BuildSubtitle(input_file, subtitle_file, output_file, gpu_mode, font_color)

(***************************************************************************)
(* VideoProcessorManager (video_processor.py:436-499): a dictionary of     *)
(* VideoProcessor instances by name.  Its methods take no lock; they are   *)
(* called here from RegistryThreads, statement by statement.  An instance  *)
(* is its status: its holder starts it, it ends by itself, and             *)
(* remove_processor stops it.                                              *)
(***************************************************************************)
\* The instances created in a behaviour.
MaxInstances == 3

RegistryThreads == {1, 2}

Names == {"cut", "burn"}

\* A thread outside any call, with the result of its last call.
Ready(ret) == [at |-> "ready", name |-> "", processor |-> 0, ret |-> ret]

\* __init__ (video_processor.py:439-441)
RegistryInit ==
    /\ processors = [name \in Names |-> 0]
    /\ active_processor = ""
    /\ instances = [i \in 1..MaxInstances |-> ""]
    /\ rpc = [t \in RegistryThreads |-> Ready(Returned("None"))]

\* The instance the dictionary holds under some name.
Registered(i) == \E name \in Names : processors[name] = i

\* create_processor (video_processor.py:443-455): the new instance is known
\* to no other thread before line 454 stores it.
CreateProcessor(t, name) ==
    /\ rpc[t].at = "ready"
    /\ \E i \in 1..MaxInstances :
          /\ instances[i] = ""
          /\ \A j \in 1..(i - 1) : instances[j] # ""
          /\ instances' = [instances EXCEPT ![i] = IDLE]
          /\ processors' = [processors EXCEPT ![name] = i]
          /\ rpc' = [rpc EXCEPT ![t] = Ready(Returned("processor"))]
    /\ UNCHANGED active_processor
    /\ UNCHANGED <<vars, manager, incb>>

\* get_processor (video_processor.py:457-467)
GetProcessor(t, name) ==
    /\ rpc[t].at = "ready"
    /\ rpc' = [rpc EXCEPT ![t] =
                 Ready(Returned(IF processors[name] = 0 THEN "None" ELSE "processor"))]
    /\ UNCHANGED <<processors, active_processor, instances>>
    /\ UNCHANGED <<vars, manager, incb>>

\* remove_processor (video_processor.py:469-487)
RemoveProcessor(t) ==
    \* remove_processor(name) is called
    \/ /\ rpc[t].at = "ready"
       /\ \E name \in Names :
             rpc' = [rpc EXCEPT ![t] = [at |-> "remove_check", name |-> name,
                                        processor |-> 0, ret |-> Returned("None")]]
       /\ UNCHANGED <<processors, active_processor, instances>>
       /\ UNCHANGED <<vars, manager, incb>>
    \* video_processor.py:479 and 487
    \/ /\ rpc[t].at = "remove_check"
       /\ rpc' = [rpc EXCEPT ![t] = IF processors[rpc[t].name] # 0
                                    THEN [@ EXCEPT !.at = "remove_lookup"]
                                    ELSE Ready(Returned("False"))]
       /\ UNCHANGED <<processors, active_processor, instances>>
       /\ UNCHANGED <<vars, manager, incb>>
    \* video_processor.py:480
    \/ /\ rpc[t].at = "remove_lookup"
       /\ rpc' = [rpc EXCEPT ![t] = IF processors[rpc[t].name] # 0
                                    THEN [@ EXCEPT !.at = "remove_stop",
                                                   !.processor = processors[rpc[t].name]]
                                    ELSE Ready(Raised("KeyError"))]
       /\ UNCHANGED <<processors, active_processor, instances>>
       /\ UNCHANGED <<vars, manager, incb>>
    \* video_processor.py:481-482, with stop_process (354-359)
    \/ /\ rpc[t].at = "remove_stop"
       /\ instances' = IF instances[rpc[t].processor] = RUNNING
                       THEN [instances EXCEPT ![rpc[t].processor] = CANCELLED]
                       ELSE instances
       /\ rpc' = [rpc EXCEPT ![t].at = "remove_del"]
       /\ UNCHANGED <<processors, active_processor>>
       /\ UNCHANGED <<vars, manager, incb>>
    \* video_processor.py:483
    \/ /\ rpc[t].at = "remove_del"
       /\ IF processors[rpc[t].name] # 0
          THEN /\ processors' = [processors EXCEPT ![rpc[t].name] = 0]
               /\ rpc' = [rpc EXCEPT ![t].at = "remove_active"]
          ELSE /\ rpc' = [rpc EXCEPT ![t] = Ready(Raised("KeyError"))]
               /\ UNCHANGED processors
       /\ UNCHANGED <<active_processor, instances>>
       /\ UNCHANGED <<vars, manager, incb>>
    \* video_processor.py:484-486
    \/ /\ rpc[t].at = "remove_active"
       /\ active_processor' = IF active_processor = rpc[t].name THEN "" ELSE active_processor
       /\ rpc' = [rpc EXCEPT ![t] = Ready(Returned("True"))]
       /\ UNCHANGED <<processors, instances>>
       /\ UNCHANGED <<vars, manager, incb>>

\* The holder of a registered instance starts it (start_process, lines 79-85).
InstanceStart(i) ==
    /\ Registered(i)
    /\ instances[i] \notin {"", RUNNING}
    /\ instances' = [instances EXCEPT ![i] = RUNNING]
    /\ UNCHANGED <<processors, active_processor, rpc>>
    /\ UNCHANGED <<vars, manager, incb>>

\* The run of an instance ends (_monitor_progress, lines 149-152).
InstanceEnd(i) ==
    /\ instances[i] = RUNNING
    /\ instances' = [instances EXCEPT ![i] = COMPLETED]
    /\ UNCHANGED <<processors, active_processor, rpc>>
    /\ UNCHANGED <<vars, manager, incb>>

RegistryNext ==
    \/ \E t \in RegistryThreads, name \in Names : CreateProcessor(t, name)
    \/ \E t \in RegistryThreads, name \in Names : GetProcessor(t, name)
    \/ \E t \in RegistryThreads : RemoveProcessor(t)
    \/ \E i \in 1..MaxInstances : InstanceStart(i)
    \/ \E i \in 1..MaxInstances : InstanceEnd(i)

(***************************************************************************)
(* The specifications: the VideoProcessor with its threads and processes,  *)
(* and the FFmpegManager with its calls.  Each leaves the other's state    *)
(* as it is after construction.                                            *)
(***************************************************************************)
allvars == <<vars, manager, incb, registry>>

(***************************************************************************)
(* The callbacks as calls that take time.  The VideoProcessor calls its    *)
(* subscribers from the thread that is running: start_process and          *)
(* stop_process from the caller's (video_processor.py:115-118, 123-124,    *)
(* 361-364), _monitor_progress and _parse_progress_line from the           *)
(* monitoring thread's (154-155, 162-163, 166-167, 172-173, 259-261).  A   *)
(* thread enters the callback (CallbackEnter), the step that makes the     *)
(* call is taken inside it, and the thread goes on after the callback has  *)
(* returned (CallbackReturn).  No lock is taken around any of these calls. *)
(***************************************************************************)
\* The caller's thread; the monitoring thread of run r is thread r.
CallerThread == 0

Threads == {CallerThread} \cup Runs

\* The runs of the specification of the callbacks.
MaxCallbackRuns == 1

\* The position of thread t.
Position(t) == IF t = CallerThread THEN cpc ELSE mpc[t]

\* The positions from which a thread calls a subscriber.
CallerNotifies == {"start_notify", "start_except_notify", "stop_notify"}

MonitorNotifies == {"read", "completed_notify", "error_notify", "final", "except_notify"}

AtNotify(t) ==
    IF t = CallerThread THEN cpc \in CallerNotifies ELSE mpc[t] \in MonitorNotifies

InCallback(t) == \E e \in incb : e[1] = t

\* Thread t enters a callback.
CallbackEnter(t) ==
    /\ ~InCallback(t)
    /\ AtNotify(t)
    /\ incb' = incb \cup {<<t, Position(t)>>}
    /\ UNCHANGED <<vars, manager, registry>>

\* The callback thread t called returns.
CallbackReturn(t) ==
    /\ \E e \in incb : e[1] = t /\ e[2] # Position(t) /\ incb' = incb \ {e}
    /\ UNCHANGED <<vars, manager, registry>>

\* A step of thread t that calls a subscriber is taken inside the callback,
\* every other step outside.
CallbackStep(t) ==
    /\ InCallback(t) = (sent'.cb # "none")
    /\ InCallback(t) => <<t, Position(t)>> \in incb

\* The caller starts at most MaxCallbackRuns runs and stops them.
CallbackCaller ==
    /\ Caller
    /\ CallbackStep(CallerThread)
    /\ cop' = "start" => nruns < MaxCallbackRuns
    /\ cop' # "reset"

CallbackMonitor(r) == Monitor(r) /\ CallbackStep(r)

CallbackNext ==
    \/ CallbackCaller
    \/ \E r \in Runs : CallbackMonitor(r)
    \/ \E r \in Runs : Process(r)
    \/ \E t \in Threads : CallbackEnter(t)
    \/ \E t \in Threads : CallbackReturn(t)

\* The VideoProcessor next to a manager on a Linux host, no subscriber called.
ProcessorInit == Init /\ ManagerInit /\ RegistryInit /\ system = "linux" /\ incb = {}

Spec == ProcessorInit /\ [][Next]_allvars

CallbackSpec == ProcessorInit /\ [][CallbackNext]_allvars

(***************************************************************************)
(* The VideoProcessor under fair scheduling of its monitoring threads: a   *)
(* thread started at line 112 that can take a step takes it eventually.    *)
(* The caller and the external processes are under no such obligation.     *)
(***************************************************************************)
\* The caller starts at most MaxCallbackRuns runs.
SettleCaller == Caller /\ (cop' = "start" => nruns < MaxCallbackRuns)

SettleNext ==
    \/ SettleCaller
    \/ \E r \in Runs : Monitor(r)
    \/ \E r \in Runs : Process(r)

SettleSpec ==
    /\ ProcessorInit
    /\ [][SettleNext]_allvars
    /\ \A r \in Runs : WF_allvars(Monitor(r))

\* The manager next to a VideoProcessor that is never started.
ManagerStart == Init /\ ManagerInit /\ RegistryInit /\ incb = {}

ManagerSpec == ManagerStart /\ [][ManagerNext]_allvars

(***************************************************************************)
(* The progress-line parser on its own: the lines of one or more runs are  *)
(* parsed one after the other, as the monitoring thread does               *)
(* (video_processor.py:140-146), between the calls of start_process and    *)
(* set_total_duration.                                                     *)
(***************************************************************************)
ErrLine2 == Line("Conversion failed!", TRUE, FALSE, NoTok, NoTok, NoTok, NoTok, NoTok)

HalfLine ==
    Line("time=00:05:00.00 speed=2.0x", FALSE, TRUE, TimeTok(TimeStr(0, 5, 0, 0, TRUE)),
         SpeedTok("2.0"), NoTok, NoTok, NoTok)

ParserLines ==
    {ErrLine1, ErrLine2, ProgLine1, HalfLine,
     Line("[mp4] Could not write header frame= 7 time=00:00:07.00", TRUE, TRUE,
          TimeTok(TimeStr(0, 0, 7, 0, TRUE)), NoTok, NoTok, NoTok, NumTok(7)),
     Line("Press [q] to stop", FALSE, FALSE, NoTok, NoTok, NoTok, NoTok, NoTok),
     \* No marker of line 193 in it: fps= and speed= alone are not looked at.
     Line("fps= 30 speed=1.0x", FALSE, FALSE, NoTok, SpeedTok("1.0"), NoTok, NumTok(30), NoTok),
     Line("size= 1024kB bitrate=1677.7kbits/s", FALSE, TRUE, NoTok, NoTok,
          BitrateTok("1677.7", "kbits/s"), NoTok, NoTok),
     \* The first line ffmpeg writes: bitrate=N/A is not matched by line 217.
     Line("frame= 0 fps=0.0 size= 0kB time=N/A bitrate=N/A speed=N/A", FALSE, TRUE,
          NaTok, NaTok, NoTok, NumTok(0), NumTok(0)),
     Line("frame= 375 time=00:00:15.00 speed=2.0x", FALSE, TRUE,
          TimeTok(TimeStr(0, 0, 15, 0, TRUE)), SpeedTok("2.0"), NoTok, NoTok, NumTok(375)),
     \* A timestamp without a fraction, and no speed known.
     Line("frame= 200 time=00:00:08 speed=N/A", FALSE, TRUE,
          TimeTok(TimeStr(0, 0, 8, 0, FALSE)), NaTok, NoTok, NoTok, NumTok(200)),
     Line("time=00:00:09.00 speed=0.0x", FALSE, TRUE,
          TimeTok(TimeStr(0, 0, 9, 0, TRUE)), SpeedTok("0.0"), NoTok, NoTok, NoTok),
     \* The pattern of line 212 takes any run of digits and dots.
     Line("time=00:00:09.50 speed=1.2.3x", FALSE, TRUE,
          TimeTok(TimeStr(0, 0, 9, 50, TRUE)), SpeedTok("1.2.3"), NoTok, NoTok, NoTok)}

\* What the parser leaves alone.
apart == <<status, current_task, process, stop_event, caller, monitors, procs, stopped,
           ffmpeg_path, version, is_valid, ffmpeg_gpu_support, system, detector, incb,
           registry>>

\* start_process, lines 86-87: a run begins with no reason and a new record.
NewRun ==
    /\ error_message' = ""
    /\ progress' = NewProgress
    /\ sent' = NoNote
    /\ request' = [op |-> "start_process"]
    /\ result' = Returned("True")
    /\ UNCHANGED total
    /\ UNCHANGED apart

\* set_total_duration (video_processor.py:335-345)
TotalDuration(duration_str) ==
    /\ total' = TimeToSeconds(duration_str)
    /\ sent' = NoNote
    /\ request' = [op |-> "set_total_duration"]
    /\ result' = Returned("None")
    /\ UNCHANGED <<error_message, progress>>
    /\ UNCHANGED apart

\* One call of _parse_progress_line; the request keeps the line and the fields
\* as they were when the call was made.
ParseLine(line) ==
    LET parsed == ParseProgressLine(line, progress, error_message, total)
    IN  /\ progress' = parsed.progress
        /\ error_message' = parsed.error_message
        /\ sent' = IF parsed.notify THEN ProgressNote("line") ELSE NoNote
        /\ request' = [op |-> "_parse_progress_line", line |-> line, progress |-> progress,
                       error_message |-> error_message, total |-> total]
        /\ result' = Returned("None")
        /\ UNCHANGED total
        /\ UNCHANGED apart

ParserNext ==
    \/ NewRun
    \/ \E duration_str \in Durations \cup {TimeStr(0, 10, 0, 0, FALSE),
                                           TimeStr(0, 0, 0, 0, FALSE)} :
          TotalDuration(duration_str)
    \/ \E line \in ParserLines : ParseLine(line)

ParserSpec == ProcessorInit /\ [][ParserNext]_allvars

DetectorSpec == ManagerStart /\ [][DetectorNext]_allvars

RegistrySpec == ManagerStart /\ [][RegistryNext]_allvars

(***************************************************************************)
(* Notions the properties below share.                                     *)
(***************************************************************************)
Terminal == {COMPLETED, ERROR, CANCELLED}

LiveProcesses == {r \in Runs : pst[r] = "alive"}

\* The texts of the lines with an error keyword.
ErrorTexts == {line.text : line \in {l \in Lines : l.kw}}

(***************************************************************************)
(* C1.  At most one external process is live per VideoProcessor at any     *)
(* time, under every interleaving of start_process, stop_process, reset    *)
(* and the monitoring threads.                                             *)
(***************************************************************************)
C1_AtMostOneLiveProcess == Cardinality(LiveProcesses) <= 1

(***************************************************************************)
(* C2.  stop_process on a Running instance always leads to the external    *)
(* process being terminated, and killed if it ignores the signal: once the *)
(* monitoring thread of a run during which the stop signal was raised has  *)
(* ended, the process of that run is no longer alive.                      *)
(***************************************************************************)
C2_CancelledProcessEnds ==
    \A r \in Runs :
        (r \in stopped /\ mpc[r] \in {"done", "returned"}) => pst[r] # "alive"

(***************************************************************************)
(* C3.  Completed, Failed and Cancelled are terminal: from one of them the *)
(* status changes only to Idle, by reset, or to Running, by start_process. *)
(***************************************************************************)
C3_TerminalUntilResetOrStart ==
    [][(status \in Terminal /\ status' # status) =>
           \/ status' = IDLE /\ cop = "reset"
           \/ status' = RUNNING /\ cop = "start"]_vars

(***************************************************************************)
(* C4.  The final progress notification of a run is delivered before the   *)
(* transition out of Running can be observed: whenever the status of the   *)
(* current run leaves Running, the monitoring thread of that run has made  *)
(* its final progress callback.                                            *)
(***************************************************************************)
C4_FinalProgressBeforeTransition ==
    [][(status = RUNNING /\ status' \in Terminal /\ process # 0 /\ cop # "start") =>
           mpc[process] = "done"]_vars

(***************************************************************************)
(* C5.  start_process on a Running instance returns False and changes      *)
(* nothing: status, progress record, failure reason, task label, process   *)
(* handle and stop flag are unchanged, no process is spawned, no           *)
(* monitoring thread is started and no callback is called.                 *)
(***************************************************************************)
C5_RejectedStartChangesNothing ==
    [][(cpc = "start_check" /\ cpc' # cpc /\ status = RUNNING) =>
           /\ cpc' = "ready"
           /\ sent' = Returning(NoNote, "start", "False")
           /\ UNCHANGED <<status, progress, error_message, current_task, process,
                          stop_event, total>>
           /\ UNCHANGED <<mpc, pst, nruns>>]_vars

\* A start_process has just been rejected on a Running instance whose task
\* label differs from the label passed.
C5_Witness ==
    /\ sent = Returning(NoNote, "start", "False")
    /\ status = RUNNING
    /\ current_task = "cut"
    /\ nruns = 1

(***************************************************************************)
(* C6.  stop_process on an instance that is not Running returns False and  *)
(* changes nothing: status, progress record and failure reason are         *)
(* unchanged, the stop signal is not raised and no callback is called.  A  *)
(* stop_process that returned True leaves the instance not Running, so a   *)
(* second stop_process right after it is such a call without effect.       *)
(***************************************************************************)
C6_StopWhenNotRunningIsNoOp ==
    [][/\ (cpc = "stop_check" /\ cop = "stop" /\ cpc' # cpc /\ status # RUNNING) =>
              /\ cpc' = "ready"
              /\ sent' = Returning(NoNote, "stop", "False")
              /\ UNCHANGED <<status, progress, error_message, current_task, process,
                             stop_event, total>>
              /\ UNCHANGED <<mpc, pst, sigterm>>
       /\ (sent'.op = "stop" /\ sent'.ret = "True") => status' # RUNNING]_vars

\* A second stop_process has just returned False on a Cancelled instance.
C6_Witness ==
    /\ sent = Returning(NoNote, "stop", "False")
    /\ status = CANCELLED
    /\ stop_event

(***************************************************************************)
(* C7.  In every observable state in which the status is Completed the     *)
(* percentage is 100.  The states observed are those in which the caller   *)
(* is between two calls and no monitoring thread stands between the        *)
(* assignment of Completed and the assignment of the percentage.           *)
(***************************************************************************)
C7_CompletedMeansHundred ==
    (/\ status = COMPLETED
     /\ cpc = "ready"
     /\ \A r \in Runs : mpc[r] # "completed_percentage")
        => progress.percentage = Whole(100)

(***************************************************************************)
(* C8.  When the external process exits with a non-zero code and no cancel *)
(* was requested, the failure reason reported with Failed is the           *)
(* diagnostic line captured, if one was captured, and else the generic     *)
(* message naming the non-zero exit code: every Failed notification of the *)
(* exit path (video_processor.py:163) carries one of these reasons.        *)
(***************************************************************************)
C8_FailureReason ==
    (sent.cb = "status" /\ sent.kind = "failed" /\ sent.status = ERROR) =>
        sent.reason \in ErrorTexts \cup {ExitMessage(code) : code \in {"1", "-15", "-9"}}

(***************************************************************************)
(* C9.  A run in which an error-keyword line was captured never ends in    *)
(* Completed, whatever the exit code.                                      *)
(***************************************************************************)
C9_ErrorLineNeverCompleted == status = COMPLETED => error_message \notin ErrorTexts

(***************************************************************************)
(* C9, amended.  The exit code alone decides between Completed and Failed: *)
(* a monitoring thread that found no stop signal sets Completed when the   *)
(* return code it read is 0 and Failed when it is not, whether or not an   *)
(* error-keyword line was captured; the captured line is only the reason.  *)
(***************************************************************************)
C9_ExitCodeDecides ==
    [][\A r \in Runs :
           (mpc[r] \in {"completed", "error"} /\ mpc'[r] # mpc[r]) =>
               status' = IF mrc[r] = "0" THEN COMPLETED ELSE ERROR]_vars

\* Completed has just been notified for a run in which an error line was captured.
C9_Witness ==
    /\ sent = StatusNote(COMPLETED, "done", "")
    /\ status = COMPLETED
    /\ error_message \in ErrorTexts

(***************************************************************************)
(* C10.  A failed job always yields a non-empty reason: in every           *)
(* observable state in which the status is Failed the failure reason is    *)
(* not empty, and every status notification that reports Failed carries a  *)
(* non-empty reason.  The states observed are those in which the caller is *)
(* between two calls and no monitoring thread stands between the           *)
(* assignment of Failed and the assignment of the reason.                  *)
(***************************************************************************)
C10_FailedHasReason ==
    /\ (/\ status = ERROR
        /\ cpc = "ready"
        /\ \A r \in Runs : mpc[r] \notin {"error_message", "except_message"})
           => error_message # ""
    /\ (sent.cb = "status" /\ sent.status = ERROR /\ sent.kind \in {"failed", "exception"})
           => sent.reason # ""

(***************************************************************************)
(* C11.  A cancelled job yields no reason: whenever the status is          *)
(* Cancelled the failure reason is empty, also when an error-keyword line  *)
(* was captured before stop_process was called.                            *)
(***************************************************************************)
C11_CancelledHasNoReason == status = CANCELLED => error_message = ""

(***************************************************************************)
(* C12.  reset returns the instance to Idle with the progress record at    *)
(* its initial values, the failure reason empty and the total-duration     *)
(* hint cleared: this is the state in which every call of reset returns.   *)
(***************************************************************************)
C12_ResetReturnsToIdle ==
    (sent.op = "reset") =>
        /\ status = IDLE
        /\ progress = NewProgress
        /\ error_message = ""
        /\ total = NoTotal

(***************************************************************************)
(* C13.  If spawning the external process raises, start_process returns    *)
(* False and the instance is Failed with the exception text as reason: a   *)
(* start_process that returns False on an instance it was accepted on      *)
(* leaves status Failed and the reason the text of the exception, and      *)
(* started no monitoring thread.                                           *)
(***************************************************************************)
C13_SpawnFailureIsFailed ==
    (sent.op = "start" /\ sent.ret = "False" /\ sent.cb = "status") =>
        /\ status = ERROR
        /\ error_message = SpawnMessage
        /\ sent.status = ERROR
        /\ sent.reason = SpawnMessage

(***************************************************************************)
(* C14.  An accepted start_process moves the instance to Running and       *)
(* resets the progress record and the failure reason before any line of    *)
(* the new run is parsed: when the monitoring thread of the new run enters *)
(* _monitor_progress the status is Running or a terminal status of this    *)
(* run, and until it has read a line the record is the initial one.        *)
(***************************************************************************)
C14_StartResetsProgress ==
    \A r \in Runs : (mpc[r] = "entry" /\ cpc = "start_notify" /\ process = r) =>
        /\ status = RUNNING
        /\ progress = NewProgress
        /\ error_message = ""

(***************************************************************************)
(* C15.  The subscriber callbacks of one VideoProcessor are never invoked  *)
(* concurrently: at no time are two threads inside a callback.             *)
(***************************************************************************)
C15_CallbacksNeverOverlap == Cardinality({e[1] : e \in incb}) <= 1

(***************************************************************************)
(* C16.  build is total over valid input: with a verified binary path,     *)
(* build_cut_command on a request with start < end and                     *)
(* build_subtitle_burn_command on any request return an argument           *)
(* sequence, whatever the mode, the quality and the capability snapshot,   *)
(* and in the cut sequence the time-range arguments stand before the       *)
(* input-file argument.                                                    *)
(***************************************************************************)
C16_BuildIsTotal ==
    /\ (/\ request.op = "build_cut_command"
        /\ is_valid
        /\ time_to_seconds(request.start_time) < time_to_seconds(request.end_time))
           => /\ result.kind = "returned"
              /\ \E i, j \in 1..Len(result.value) :
                     /\ result.value[i] = "-ss"
                     /\ result.value[j] = "-i"
                     /\ i + 3 < j
    /\ (request.op = "build_subtitle_burn_command" /\ is_valid)
           => result.kind = "returned"

(***************************************************************************)
(* C17.  For every cut request with start >= end, compared in seconds,     *)
(* build_cut_command fails with the error of an invalid request (the       *)
(* ValueError the builder raises) and returns no argument sequence.        *)
(***************************************************************************)
C17_StartNotBeforeEndIsRejected ==
    (/\ request.op = "build_cut_command"
     /\ time_to_seconds(request.start_time) >= time_to_seconds(request.end_time))
        => result = Raised(InvalidPathError)

(***************************************************************************)
(* C18.  A build fails with the invalid-path ValueError exactly when the   *)
(* binary path is unset or unverified: set_ffmpeg_path leaves is_valid     *)
(* true exactly when it verified its path, a failed set_ffmpeg_path clears *)
(* the path, the version and the valid flag, the builders leave the three  *)
(* alone and raise the error exactly when is_valid is false.  So after any *)
(* sequence of set_ffmpeg_path calls a build passes the test only if the   *)
(* most recent call verified its path.                                     *)
(***************************************************************************)
C18_BuildNeedsVerifiedPath ==
    [][/\ request'.op = "set_ffmpeg_path" =>
              /\ is_valid' = (result'.value = "True")
              /\ is_valid' => ffmpeg_path' = request'.path
              /\ ~is_valid' => (ffmpeg_path' = "" /\ version' = "")
       /\ request'.op \in {"build_cut_command", "build_subtitle_burn_command"} =>
              /\ UNCHANGED <<ffmpeg_path, version, is_valid>>
              /\ (result' = Raised(InvalidPathError)) = ~is_valid]_allvars

\* A build has just been rejected after a set_ffmpeg_path that failed, which
\* followed one that succeeded (the capability flags are that one's).
C18_Witness ==
    /\ request.op = "build_cut_command"
    /\ result = Raised(InvalidPathError)
    /\ ~is_valid /\ ffmpeg_path = "" /\ version = ""
    /\ ffmpeg_gpu_support["nvenc"]

(***************************************************************************)
(* C19.  Encoder resolution never trusts the requested mode: every build   *)
(* with a verified path returns a sequence whose encoder (the argument     *)
(* after -c:v) is h264_nvenc if the mode is cuda and the nvenc flag true,  *)
(* h264_amf if the mode is amd and the amf flag true, and libx264 in every *)
(* other case; a missing flag never makes the build fail.                  *)
(***************************************************************************)
C19_EncoderFollowsSnapshot ==
    (request.op \in {"build_cut_command", "build_subtitle_burn_command"} /\ is_valid) =>
        /\ result.kind = "returned"
        /\ \E i \in 1..(Len(result.value) - 1) :
               /\ result.value[i] = "-c:v"
               /\ result.value[i + 1] =
                      IF request.gpu_mode = "cuda" /\ ffmpeg_gpu_support["nvenc"]
                      THEN "h264_nvenc"
                      ELSE IF request.gpu_mode = "amd" /\ ffmpeg_gpu_support["amf"]
                      THEN "h264_amf"
                      ELSE "libx264"

(***************************************************************************)
(* C20.  For a cut request with a verified path the built sequence is the  *)
(* binary, the acceleration hints if any, -ss <start> -to <end> with the   *)
(* literal timestamps, -i <input>, -c:v <encoder>, the quality-tier group, *)
(* -c:a copy and the output path as last element; for cpu/medium this is   *)
(* -ss <start> -to <end> -i <input> -c:v libx264 -preset medium -crf 23    *)
(* -c:a copy <output>.                                                     *)
(***************************************************************************)
C20_CutSequenceOrder ==
    (request.op = "build_cut_command" /\ is_valid) =>
        /\ result.kind = "returned"
        /\ \E hints \in {<<>>, <<"-hwaccel", "cuda">>, <<"-hwaccel", "opencl">>,
                         <<"-hwaccel", "d3d11va">>},
              encoder \in {"libx264", "h264_nvenc", "h264_amf"} :
               result.value =
                   <<ffmpeg_path>> \o hints
                   \o <<"-ss", request.start_time, "-to", request.end_time>>
                   \o <<"-i", make_safe_path(request.input_file), "-c:v", encoder>>
                   \o get_quality_settings(request.quality, request.gpu_mode)
                   \o <<"-c:a", "copy", make_safe_path(request.output_file)>>
        /\ (request.gpu_mode = "cpu" /\ request.quality = "medium") =>
               result.value =
                   <<ffmpeg_path, "-ss", request.start_time, "-to", request.end_time,
                     "-i", make_safe_path(request.input_file), "-c:v", "libx264",
                     "-preset", "medium", "-crf", "23", "-c:a", "copy",
                     make_safe_path(request.output_file)>>

\* C21: the quality-tier argument group returned for (accelMode, quality) is the
\* one of the fixed table: cpu gives preset fast/medium/slow with crf 28/23/18,
\* cuda gives preset fast/medium/slow with bitrate 3M/5M/8M, amd gives only the
\* bitrate 3M/5M/8M, for low/medium/high respectively.
C21_QualityTable ==
    (request.op = "_get_quality_settings" /\ request.quality \in {"low", "medium", "high"})
        => LET q == request.quality
               QualityPreset == [low |-> "fast", medium |-> "medium", high |-> "slow"]
               QualityCrf == [low |-> "28", medium |-> "23", high |-> "18"]
               QualityBitrate == [low |-> "3M", medium |-> "5M", high |-> "8M"]
           IN  result = Returned(
                   CASE request.gpu_mode = "cpu" ->
                            <<"-preset", QualityPreset[q], "-crf", QualityCrf[q]>>
                     [] request.gpu_mode = "cuda" ->
                            <<"-preset", QualityPreset[q], "-b:v", QualityBitrate[q]>>
                     [] request.gpu_mode = "amd" -> <<"-b:v", QualityBitrate[q]>>)

C21_Witness ==
    /\ request.op = "_get_quality_settings"
    /\ request.gpu_mode = "amd"
    /\ request.quality = "high"
    /\ result = Returned(<<"-b:v", "8M">>)

\* C22: the acceleration hints are: in cuda mode the cuda hint only if the cuda
\* flag is true; in amd mode the opencl hint if the opencl flag is true, else the
\* platform's video-acceleration hint (d3d11va on Windows) if its flag is true,
\* else nothing; in cpu mode nothing; and in the sequence built for a cut request
\* every emitted hint stands before the input-file argument.
C22_HintsPrecedeInput ==
    LET Hints(mode) ==
            CASE mode = "cuda" /\ ffmpeg_gpu_support["cuda"] -> <<"-hwaccel", "cuda">>
              [] mode = "amd" /\ ffmpeg_gpu_support["opencl"] -> <<"-hwaccel", "opencl">>
              [] mode = "amd" /\ ~ffmpeg_gpu_support["opencl"] /\ system = "windows"
                     /\ ffmpeg_gpu_support["d3d11va"] -> <<"-hwaccel", "d3d11va">>
              [] OTHER -> <<>>
    IN  /\ request.op = "get_gpu_acceleration_args" => result = Returned(Hints(request.mode))
        /\ (request.op = "build_cut_command" /\ is_valid)
               => /\ result.kind = "returned"
                  /\ \E i \in 1..Len(result.value) :
                         /\ result.value[i] = "-i"
                         /\ i > 1 + Len(Hints(request.gpu_mode))
                         /\ SubSeq(result.value, 2, 1 + Len(Hints(request.gpu_mode)))
                                = Hints(request.gpu_mode)

\* C23: colour-name resolution is total and case-insensitive: every name yields a
\* value of six hexadecimal digits, each of the eight palette names in any letter
\* case yields its fixed value, and every other name yields FFFFFF.
C23_ColorResolution ==
    LET Palette ==
            {<<{"white", "White"}, "FFFFFF">>, <<{"black", "BLACK"}, "000000">>,
             <<{"red", "Red"}, "FF0000">>, <<{"green", "GREEN"}, "00FF00">>,
             <<{"blue", "bLuE"}, "0000FF">>, <<{"yellow", "Yellow"}, "FFFF00">>,
             <<{"cyan", "CYAN"}, "00FFFF">>, <<{"magenta", "Magenta"}, "FF00FF">>}
    IN  request.op = "_color_to_hex"
            => /\ result.kind = "returned"
               /\ Len(result.value) = 6
               /\ \A entry \in Palette :
                      request.color_name \in entry[1] => result.value = entry[2]
               /\ (\A entry \in Palette : request.color_name \notin entry[1])
                      => result.value = "FFFFFF"

C23_Witness ==
    /\ request.op = "_color_to_hex"
    /\ request.color_name = "Yellow"
    /\ result = Returned("FFFF00")

\* C24: for a subtitleBurn request with a verified path the built sequence is the
\* binary, the acceleration hints if any, -i <input>, one -vf filter-graph
\* argument embedding the escaped subtitle path and the style clause
\* FontSize=<n>,PrimaryColour=&H<hex>, -c:v <encoder>, -c:a copy and the output
\* path; in the embedded path every backslash of the subtitle path is a forward
\* slash and every single quote is preceded by a backslash.
C24_SubtitleSequenceOrder ==
    (request.op = "build_subtitle_burn_command" /\ is_valid) =>
        /\ result.kind = "returned"
        /\ \E hints \in {<<>>, <<"-hwaccel", "cuda">>, <<"-hwaccel", "opencl">>,
                         <<"-hwaccel", "d3d11va">>},
              encoder \in {"libx264", "h264_nvenc", "h264_amf"},
              hex \in {"FFFFFF", "FFFF00"} :
               LET embedded == IF request.subtitle_file = "sub\\it's.srt"
                               THEN "sub/it\\'s.srt"
                               ELSE request.subtitle_file
               IN  result.value =
                       <<ffmpeg_path>> \o hints
                       \o <<"-i", make_safe_path(request.input_file)>>
                       \o <<"-vf", "subtitles='" \o embedded
                                       \o "':force_style='FontSize=24,PrimaryColour=&H"
                                       \o hex \o "'">>
                       \o <<"-c:v", encoder, "-c:a", "copy",
                            make_safe_path(request.output_file)>>

\* C25: get_recommended_gpu_mode follows the priority nvidia-cuda > amd > cpu: it
\* returns cuda iff an nvidia device exists and the cuda flag is true; otherwise
\* amd iff an amd device exists and the amf flag or the opencl flag is true;
\* otherwise cpu.
C25_RecommendPriority ==
    request.op = "get_recommended_gpu_mode" =>
        LET Has(vendor) == \E i \in DOMAIN request.available_gpus :
                               request.available_gpus[i] = vendor
            flags == request.ffmpeg_gpu_support
            cuda == Has("nvidia") /\ flags["cuda"]
            amd == Has("amd") /\ (flags["amf"] \/ flags["opencl"])
        IN  /\ result.kind = "returned"
            /\ result.value = "cuda" <=> cuda
            /\ result.value = "amd" <=> (~cuda /\ amd)
            /\ result.value = "cpu" <=> (~cuda /\ ~amd)

C25_Witness ==
    /\ request.op = "get_recommended_gpu_mode"
    /\ request.available_gpus = <<"amd", "nvidia">>
    /\ request.ffmpeg_gpu_support["cuda"]
    /\ request.ffmpeg_gpu_support["amf"]
    /\ result = Returned("cuda")

\* C26: check_ffmpeg_gpu_support never raises, and a probe in which a call of
\* the binary exits non-zero, times out or cannot be run returns all-false
\* flags, also after an earlier probe had set flags to true and also when only
\* one of the two introspection calls fails.
C26_FailedProbeIsAllFalse ==
    request.op = "check_ffmpeg_gpu_support" =>
        /\ result.kind = "returned"
        /\ ({request.hw, request.enc} \cap {{"failed"}, {"raised"}} # {})
               => result.value = NoSupport

\* C27: a capability snapshot is never mutated after creation: the flag mapping
\* a probe returned reads, at any later time and during any later probe, as it
\* read when it was returned.
C27_SnapshotNeverMutated ==
    "flags" \in snapshot.held => HeldFlags = snapshot.flags

\* C28: within one run the first line with an error keyword is captured verbatim
\* as the failure reason and no later error line overwrites it; a line with an
\* error keyword changes no progress field and triggers no progress
\* notification; a line without one leaves the reason alone.
C28_FirstErrorLineKept ==
    request.op = "_parse_progress_line" =>
        IF request.line.kw
        THEN /\ error_message = IF request.error_message = ""
                                THEN request.line.text
                                ELSE request.error_message
             /\ progress = request.progress
             /\ sent.cb = "none"
        ELSE error_message = request.error_message

C28_Witness ==
    /\ request.op = "_parse_progress_line"
    /\ request.line = ErrLine2
    /\ request.error_message = "Error: Invalid data found"
    /\ error_message = "Error: Invalid data found"
    /\ progress # NewProgress

\* C29: with a positive total duration and a positive processed time, the
\* percentage is min(100, 100 * processed / total); with a positive speed the
\* ETA is floor((total - processed) / speed) seconds written as HH:MM:SS; with
\* total 600 s and the line `time=00:05:00.00 speed=2.0x` they are 50.0 and
\* 00:02:30.
C29_PercentageAndEta ==
    (/\ request.op = "_parse_progress_line"
     /\ ~request.line.kw
     /\ request.line.marker
     /\ request.total > 0
     /\ TimeToSeconds(progress.time_processed) > 0)
        => LET processed == TimeToSeconds(progress.time_processed)
               tenths == SpeedValue(progress.speed)
               \* hundredths / (hundredths per second * tenths / 10), rounded down
               floor == ((request.total - processed) * 10) \div (100 * tenths)
           IN  /\ progress.percentage.n * request.total
                      = progress.percentage.d
                            * (IF processed >= request.total THEN 100 * request.total
                               ELSE 100 * processed)
               /\ tenths > 0 =>
                      /\ progress.eta.k = "time"
                      /\ progress.eta.h \in 0..99
                      /\ progress.eta.m \in 0..59
                      /\ progress.eta.s \in 0..59
                      /\ progress.eta.h * 3600 + progress.eta.m * 60 + progress.eta.s = floor
               /\ (request.line = HalfLine /\ request.total = 60000) =>
                      /\ progress.percentage = Whole(50)
                      /\ progress.eta = [k |-> "time", h |-> 0, m |-> 2, s |-> 30]

\* C30: a parsed line triggers a progress notification only if the line itself
\* gave a time or a frame count above zero; a line that only carries bitrate,
\* fps or speed triggers none.
C30_NotifyOnlyOnProgress ==
    (request.op = "_parse_progress_line" /\ sent.cb = "progress")
        => \/ request.line.time.k = "tok"
           \/ (request.line.frame.k = "tok" /\ request.line.frame.v > 0)

\* C31: parsing the same line twice in a row leaves the progress record and
\* the failure reason after the second call as they were after the first, and
\* the second call sends no progress notification.
C31_SameLineTwiceIsIdempotent ==
    [][(/\ request.op = "_parse_progress_line"
        /\ request'.op = "_parse_progress_line"
        /\ request'.line = request.line)
           => /\ progress' = progress
              /\ error_message' = error_message
              /\ sent'.cb = "none"]_allvars

\* C32: time=N/A leaves the time of the record as it was, speed=N/A puts
\* "N/A" in place of the speed, and a matched timestamp is stored with its
\* fraction, ".00" when the line wrote none.
C32_NotAvailableTokens ==
    (/\ request.op = "_parse_progress_line"
     /\ ~request.line.kw
     /\ request.line.marker)
        => /\ request.line.time.k = "na" =>
                  progress.time_processed = request.progress.time_processed
           /\ request.line.speed.k = "na" => progress.speed = "N/A"
           /\ request.line.time.k = "tok" =>
                  /\ progress.time_processed.h = request.line.time.t.h
                  /\ progress.time_processed.m = request.line.time.t.m
                  /\ progress.time_processed.s = request.line.time.t.s
                  /\ progress.time_processed.frac
                  /\ progress.time_processed.f
                         = IF request.line.time.t.frac THEN request.line.time.t.f ELSE 0

C32_Witness ==
    /\ request.op = "_parse_progress_line"
    /\ request.line.time.k = "na"
    /\ request.line.speed.k = "na"
    /\ request.progress.speed = "2.0x"
    /\ progress.speed = "N/A"
    /\ progress.time_processed = TimeStr(0, 0, 5, 0, TRUE)

\* C33: a parsed line leaves percentage and ETA as they were when no positive
\* total duration is set or the processed time is not positive, and leaves
\* the ETA as it was when the speed is N/A, zero or not a number.
C33_DerivedFieldsHold ==
    (/\ request.op = "_parse_progress_line"
     /\ ~request.line.kw
     /\ request.line.marker)
        => /\ (request.total <= 0 \/ TimeToSeconds(progress.time_processed) <= 0) =>
                  /\ progress.percentage = request.progress.percentage
                  /\ progress.eta = request.progress.eta
           /\ SpeedValue(progress.speed) <= 0 => progress.eta = request.progress.eta

C33_Witness ==
    /\ request.op = "_parse_progress_line"
    /\ request.total = 0
    /\ request.line.time.k = "tok"
    /\ request.line.speed.k = "tok"
    /\ SpeedValue(progress.speed) > 0
    /\ progress.percentage = Whole(50)
    /\ progress.eta.k = "time"
    /\ progress.time_processed # request.progress.time_processed

\* C34: the percentage of the progress record lies in [0, 100] in every
\* reachable state.
C34_PercentageInRange ==
    /\ progress.percentage.d > 0
    /\ progress.percentage.n >= 0
    /\ progress.percentage.n <= 100 * progress.percentage.d

C34_Witness ==
    /\ request.op = "_parse_progress_line"
    /\ request.total > 0
    /\ TimeToSeconds(progress.time_processed) > request.total
    /\ progress.percentage = Whole(100)

\* C35: the ETA of the progress record is the unknown sentinel or a duration
\* HH:MM:SS that is not negative, also when the processed time is beyond the
\* total duration.
C35_EtaNeverNegative ==
    progress.eta.k = "time" =>
        /\ progress.eta.h >= 0
        /\ progress.eta.m \in 0..59
        /\ progress.eta.s \in 0..59
        /\ progress.eta.h * 3600 + progress.eta.m * 60 + progress.eta.s >= 0

\* The monitoring threads that have been started and have not ended.
ActiveMonitors == {r \in Runs : mpc[r] \notin {"none", "done", "returned"}}

\* C36: at most one monitoring thread is active per instance at any time, and
\* a monitoring thread only ever looks at the process of the run it was
\* started for, also when start_process is called again after stop_process or
\* reset while the earlier thread has not ended.
C36_OneMonitorPerRun ==
    /\ Cardinality(ActiveMonitors) <= 1
    /\ \A r \in ActiveMonitors : process \in {0, r}

\* C37: once a reset that cancelled a run has returned, and until the next
\* start_process, no step of a monitoring thread changes the status, the
\* failure reason or the progress record, or calls the status callback.
C37_NothingAfterReset ==
    [][(/\ cpc = "ready" /\ cpc' = "ready"
        /\ mpc' # mpc
        /\ stop_event             \* the run was cancelled, none started since
        /\ process = 0
        /\ status = IDLE
        /\ error_message = ""
        /\ progress = NewProgress)
           => /\ status' = IDLE
              /\ error_message' = ""
              /\ progress' = NewProgress
              /\ sent'.cb # "status"]_allvars

\* The positions of _monitor_progress before the branch of line 149-151.
Watching == {"entry", "loop", "read", "check_stop", "post"}

C39_OnlyUsableCapability ==
    LET vendor(mode) == IF mode = "cuda" THEN "nvidia" ELSE mode
        present(mode) == \E i \in 1..Len(available_gpus) : available_gpus[i] = vendor(mode)
    IN  /\ (/\ request.op = "get_gpu_acceleration_args"
            /\ result.kind = "returned"
            /\ result.value # <<>>) => present(request.mode)
        /\ (/\ request.op \in {"build_cut_command", "build_subtitle_burn_command"}
            /\ is_valid
            /\ request.gpu_mode \in {"cuda", "amd"}
            /\ ~present(request.gpu_mode))
               => /\ result.kind = "returned"
                  /\ \A i \in 1..Len(result.value) : result.value[i] # "-hwaccel"
                  /\ \E i \in 1..(Len(result.value) - 1) :
                         result.value[i] = "-c:v" /\ result.value[i + 1] = "libx264"

\* C40: under concurrent create_processor, remove_processor and
\* get_processor calls no call fails, and no Running instance is outside the
\* dictionary unless it was started there: an instance leaves the dictionary
\* cancelled or not running, also when create_processor reuses its name.
C40_RegistryKeepsRunningInstances ==
    /\ \A t \in RegistryThreads : rpc[t].ret.kind # "raised"
    /\ \A i \in 1..MaxInstances : instances[i] = RUNNING => Registered(i)

====
